---- MODULE Spec2Model ----
(***************************************************************************)
(* Local Food Wastage Management System: the SQLite stores, the schema     *)
(* manager and data loader (DatabaseSetup, two copies), the query layer    *)
(* (SQLQueries), the maintenance utilities (DatabaseUtils) and the CRUD    *)
(* handlers of the Streamlit front end (FoodWasteApp).                     *)
(*                                                                         *)
(* A store is one SQLite file.  Each handler names the file it connects to *)
(* in its own code, so the model keeps one store per path.                 *)
(*                                                                         *)
(* Spec is the program on its default paths; SpecCrud the front end once   *)
(* both files hold the tables; SpecReports the reports of the query layer  *)
(* on a store that was set up and loaded; SpecQueries all reports and the  *)
(* search form; SpecPurge two callers of clean_expired_food whose          *)
(* statements interleave with each other and with other writers.           *)
(***************************************************************************)
EXTENDS Integers, FiniteSets, Sequences, TLC

VARIABLES
    files,   \* path -> store: the SQLite files on disk
    now,     \* the current moment, in ticks of 1/TicksPerDay day
    last,    \* what the most recent call did and handed to its caller
    calls,   \* how many calls were made, in a run of bounded length
    running  \* the calls of clean_expired_food that are under way, by caller

vars == <<files, now, last, calls, running>>

----------------------------------------------------------------------------
(* Bounds of the model *)

TicksPerDay == 2      \* clock resolution: ticks per calendar day
MaxNow == 3           \* the clock stops advancing here
MaxRows == 2          \* an INSERT is taken only while the table has fewer rows
MaxCalls == 5         \* length of the call sequences of SpecCrud

----------------------------------------------------------------------------
(* Paths *)

MainPath == "database/food_waste.db"
AltPath == "food_waste.db"

\* SQLQueries.__init__, DatabaseUtils.__init__, DatabaseSetup.__init__ defaults
SQLQueriesDbPath == MainPath
DatabaseUtilsDbPath == MainPath
DatabaseSetupDbPath == MainPath

\* the literal each CRUD handler passes to sqlite3.connect
AddFoodListingPath == AltPath
AddClaimPath == MainPath
UpdateFoodListingPath == AltPath
UpdateClaimPath == AltPath
DeleteFoodListingPath == MainPath
DeleteClaimPath == AltPath

\* f"food_waste_backup_{timestamp}.db": one name per clock reading
DefaultBackupPath(t) == "food_waste_backup_" \o ToString(t) \o ".db"

Paths == {MainPath, AltPath} \cup {DefaultBackupPath(t) : t \in 0..MaxNow}

----------------------------------------------------------------------------
(* Schema and rows *)

NULL == -1     \* SQL NULL in a nullable column (all real values are >= 0)

LoadOrder == <<"providers", "receivers", "food_listings", "claims">>
Tables == {LoadOrder[i] : i \in 1..Len(LoadOrder)}

KeyCol(t) ==
    CASE t = "providers" -> "Provider_ID"
      [] t = "receivers" -> "Receiver_ID"
      [] t = "food_listings" -> "Food_ID"
      [] t = "claims" -> "Claim_ID"

Statuses == {"Pending", "Completed", "Cancelled"}
Cities == {"Mumbai", "Delhi"}

\* A table is absent, created by create_tables ("declared": INTEGER PRIMARY
\* KEY, NOT NULL columns), or recreated by DataFrame.to_sql(if_exists=
\* 'replace') ("inferred": plain columns, no key, no constraint).
\* Foreign keys are declared but SQLite enforces none unless PRAGMA
\* foreign_keys is switched on, which no connection of the program does.
EmptyStore ==
    [kind |-> [t \in Tables |-> "absent"], rows |-> [t \in Tables |-> {}]]

SetMax(S) == CHOOSE m \in S : \A x \in S : x <= m

\* the rowid SQLite gives the next inserted row: largest rowid in use + 1
NextRowid(rows) == IF rows = {} THEN 1 ELSE SetMax({r.rowid : r \in rows}) + 1

Today == now \div TicksPerDay

----------------------------------------------------------------------------
(* The CSV sources of load_csv_data: two versions of the data set *)

CsvVersions == {"v1", "v2"}

Csv(t, v) ==
    CASE t = "providers" ->
           IF v = "v1"
           THEN << [Provider_ID |-> 1, Name |-> "A", City |-> "Mumbai",
                    Contact |-> "a@x", Type |-> "Restaurant"] >>
           ELSE << [Provider_ID |-> 1, Name |-> "A", City |-> "Mumbai",
                    Contact |-> "a@x", Type |-> "Restaurant"],
                   [Provider_ID |-> 2, Name |-> "B", City |-> "Delhi",
                    Contact |-> "b@x", Type |-> "Grocery Store"] >>
      [] t = "receivers" ->
           << [Receiver_ID |-> 1, Name |-> "N", City |-> "Mumbai"] >>
      [] t = "food_listings" ->
           IF v = "v1"
           THEN << [Food_ID |-> 1, Food_Name |-> "Rice", Quantity |-> 2,
                    Expiry_Date |-> 0, Provider_ID |-> 1, Location |-> "Mumbai",
                    Meal_Type |-> "Lunch", Food_Type |-> "Vegetarian"],
                   [Food_ID |-> 2, Food_Name |-> "Bread", Quantity |-> 1,
                    Expiry_Date |-> 1, Provider_ID |-> 1, Location |-> "Delhi",
                    Meal_Type |-> "Dinner", Food_Type |-> "Vegan"] >>
           ELSE << [Food_ID |-> 3, Food_Name |-> "Dal", Quantity |-> 1,
                    Expiry_Date |-> NULL, Provider_ID |-> 2, Location |-> "Delhi",
                    Meal_Type |-> "Lunch", Food_Type |-> "Vegetarian"] >>
      [] t = "claims" ->
           IF v = "v1"
           THEN << [Claim_ID |-> 1, Food_ID |-> 1, Receiver_ID |-> 1,
                    Status |-> "Pending"] >>
           ELSE << >>

\* the rows a table holds after to_sql wrote the frame: row i gets rowid i
FrameRows(frame) ==
    {[c \in DOMAIN frame[i] \cup {"rowid"} |->
        IF c = "rowid" THEN i ELSE frame[i][c]] : i \in 1..Len(frame)}

\* a row as a full-table read (SELECT *) returns it: the hidden rowid is
\* not a column unless the key column is its alias
Visible(row) == [c \in DOMAIN row \ {"rowid"} |-> row[c]]
ReadAll(store, t) == {Visible(r) : r \in store.rows[t]}
SourceRows(t, v) == {Csv(t, v)[i] : i \in 1..Len(Csv(t, v))}

----------------------------------------------------------------------------
(* What a call hands back *)

\* op: the operation; path: the file it connected to; outcome: "returned"
\* or "raised" (an exception reached the caller); reported: an error
\* message was printed or shown; value: the return value or the message
\* class shown; arg: the inputs of the call; unclosed: the connections the
\* call opened and returned without calling close() on; sql: the statement
\* (text and parameters) the call handed to the executor, kept for the
\* calls that build it from user input
Result(op, arg, path, outcome, reported, value) ==
    [op |-> op, arg |-> arg, path |-> path, outcome |-> outcome,
     reported |-> reported, value |-> value, unclosed |-> 0, sql |-> << >>]

\* the call left through its except branch after sqlite3.connect succeeded:
\* conn.close() is the last statement of the try block and was skipped
SkippedClose(r) == [r EXCEPT !.unclosed = 1]

NoCall == Result("none", <<>>, MainPath, "returned", FALSE, 0)

ConnFaults == {"none", "unopenable"}

----------------------------------------------------------------------------
\* calls has this value in a run whose length is not bounded
Unbounded == 0 - 1

\* the callers whose clean_expired_food runs statement by statement
Callers == {1, 2}

\* a caller's position in clean_expired_food: "idle" before the call,
\* "counted" after the SELECT, "deleted" after the DELETE and its commit,
\* "done" after the return; expired_count is the local variable, rowcount
\* the number of rows the caller's DELETE removed, returned the value the
\* call handed back
NotRunning ==
    [c \in Callers |->
        [pc |-> "idle", expired_count |-> 0, rowcount |-> 0, returned |-> 0]]

\* every call that runs from start to end in one step is counted, and in a
\* run of bounded length none is made after MaxCalls calls; it leaves the
\* calls under way where they are
Counted ==
    /\ IF calls = Unbounded THEN calls' = calls
       ELSE calls < MaxCalls /\ calls' = calls + 1
    /\ running' = running

Fresh ==
    /\ files = [p \in Paths |-> EmptyStore]
    /\ now = TicksPerDay
    /\ last = NoCall
    /\ running = NotRunning

Init == Fresh /\ calls = Unbounded

InitBounded == Fresh /\ calls = 0

\* the clock moves on between two calls
Tick ==
    /\ now < MaxNow
    /\ now' = now + 1
    /\ UNCHANGED <<files, last, calls, running>>

----------------------------------------------------------------------------
(* Schema Manager: DatabaseSetup.create_tables, in both copies *)

Impls == {"root", "food_waste_project"}

\* DROP TABLE and CREATE TABLE for CREATE TABLE IF NOT EXISTS
CreateIfNotExists_Recreate(store) ==
    [kind |-> [t \in Tables |-> "declared"], rows |-> [t \in Tables |-> {}]]

\* CREATE TABLE IF NOT EXISTS, four times
CreateIfNotExists(store) ==
    [store EXCEPT !.kind = [t \in Tables |->
        IF store.kind[t] = "absent" THEN "declared" ELSE store.kind[t]]]

\* how a failure leaves the method: the root copy raises, the
\* food_waste_project copy prints (or returns after create_connection
\* printed) and returns
SetupFailure(impl) == IF impl = "root" THEN "raised" ELSE "returned"

create_tables(impl, fault) ==
    LET p == DatabaseSetupDbPath
        arg == [impl |-> impl, fault |-> fault]
    IN  /\ IF fault = "unopenable"
           THEN /\ files' = files
                /\ last' = Result("create_tables", arg, p, SetupFailure(impl),
                                  TRUE, "Could not connect")
           ELSE /\ files' = [files EXCEPT ![p] = CreateIfNotExists(files[p])]
                /\ last' = Result("create_tables", arg, p, "returned", FALSE,
                                  "Tables created")
        /\ UNCHANGED now
        /\ Counted

----------------------------------------------------------------------------
(* Data Loader: DatabaseSetup.load_csv_data, in both copies *)

CsvPath(t) == "data/" \o t \o "_data.csv"

\* what can be wrong with one source file
SourceFaults == {"missing", "unreadable"}

\* if_exists='append' for 'replace': the frame's rows are added to the table
ToSqlReplace_Append(store, t, frame) ==
    LET base == NextRowid(store.rows[t]) - 1
    IN  [store EXCEPT !.kind[t] = IF @ = "absent" THEN "inferred" ELSE @,
                      !.rows[t] = @ \cup {[r EXCEPT !.rowid = @ + base] :
                                             r \in FrameRows(frame)}]

\* DataFrame.to_sql(t, conn, if_exists='replace', index=False): the table is
\* dropped and created again from the frame's columns, then filled
ToSqlReplace(store, t, frame) ==
    [store EXCEPT !.kind[t] = "inferred", !.rows[t] = FrameRows(frame)]

\* the store after the first k tables of LoadOrder were read and written
RECURSIVE LoadPrefix(_, _, _)
LoadPrefix(store, v, k) ==
    IF k = 0 THEN store
    ELSE ToSqlReplace(LoadPrefix(store, v, k - 1), LoadOrder[k],
                      Csv(LoadOrder[k], v))

\* the text of the exception: the existence check of the root copy and the
\* FileNotFoundError of read_csv carry the path; a parser error of read_csv
\* carries no file name, and the handler adds none
LoadError(bad, how) ==
    [text |-> IF how = "missing" THEN "file not found" ELSE "parser error",
     names |-> IF how = "missing" THEN {CsvPath(LoadOrder[bad])} ELSE {}]

\* the messages printed when the store cannot be opened and at the end
CouldNotConnect == [text |-> "Could not connect", names |-> {}]
DataLoaded == [text |-> "Data loaded", names |-> {}]

\* how many tables are written before the call stops: the root copy checks
\* that all four files exist before it reads the first
TablesLoaded(impl, bad, how) ==
    IF bad = 0 THEN Len(LoadOrder)
    ELSE IF impl = "root" /\ how = "missing" THEN 0
    ELSE bad - 1

\* v: the version of the data set in data/; bad: the index in LoadOrder of
\* the source that is faulty (0: none); how: its fault
load_csv_data(impl, fault, v, bad, how) ==
    LET p == DatabaseSetupDbPath
        arg == [impl |-> impl, fault |-> fault, v |-> v, bad |-> bad,
                how |-> how]
    IN  /\ IF fault = "unopenable"
           THEN /\ files' = files
                /\ last' = Result("load_csv_data", arg, p, SetupFailure(impl),
                                  TRUE, CouldNotConnect)
           ELSE /\ files' = [files EXCEPT ![p] =
                      LoadPrefix(files[p], v, TablesLoaded(impl, bad, how))]
                /\ last' = IF bad = 0
                           THEN Result("load_csv_data", arg, p, "returned",
                                       FALSE, DataLoaded)
                           ELSE Result("load_csv_data", arg, p,
                                       SetupFailure(impl), TRUE,
                                       LoadError(bad, how))
        /\ UNCHANGED now
        /\ Counted


\* the calls of load_csv_data the model makes: a field that cannot matter
\* to the call (the data when the store cannot be opened, the kind of fault
\* when no source is faulty) is fixed
LoadCalls ==
    {c \in [impl : Impls, fault : ConnFaults, v : CsvVersions,
            bad : 0..Len(LoadOrder), how : SourceFaults] :
        /\ c.fault = "unopenable" => (c.bad = 0 /\ c.v = "v1")
        /\ c.bad = 0 => c.how = "missing"}

----------------------------------------------------------------------------
(* SQL statements the handlers execute, on one store *)

HasTable(store, t) == store.kind[t] # "absent"

\* INSERT of a row that names every column but the key: a declared key is
\* INTEGER PRIMARY KEY, an alias of the rowid, and gets the new rowid; the
\* key column of a table recreated by to_sql is a plain column and stays NULL
SqlInsert(store, t, cols) ==
    LET rid == NextRowid(store.rows[t])
        key == IF store.kind[t] = "declared" THEN rid ELSE NULL
        row == [c \in DOMAIN cols \cup {"rowid", KeyCol(t)} |->
                  IF c = "rowid" THEN rid
                  ELSE IF c = KeyCol(t) THEN key
                  ELSE cols[c]]
    IN  [store EXCEPT !.rows[t] = @ \cup {row}]

\* the rows WHERE <key column> = ? selects
Matching(store, t, id) == {r \in store.rows[t] : r[KeyCol(t)] = id}

\* an UPDATE that refuses to change a claim that is Completed or Cancelled
SqlUpdate_TerminalKept(store, t, id, sets) ==
    [store EXCEPT !.rows[t] =
        {IF r[KeyCol(t)] = id
            /\ ~("Status" \in DOMAIN r /\ r.Status \in {"Completed", "Cancelled"})
         THEN [c \in DOMAIN r |-> IF c \in DOMAIN sets THEN sets[c] ELSE r[c]]
         ELSE r : r \in @}]

\* the UPDATE without its WHERE clause: every row is set
SqlUpdate_NoWhere(store, t, id, sets) ==
    [store EXCEPT !.rows[t] =
        {[c \in DOMAIN r |-> IF c \in DOMAIN sets THEN sets[c] ELSE r[c]] :
            r \in @}]

\* UPDATE t SET <sets> WHERE <key column> = ?
SqlUpdate(store, t, id, sets) ==
    [store EXCEPT !.rows[t] =
        {IF r[KeyCol(t)] = id
         THEN [c \in DOMAIN r |-> IF c \in DOMAIN sets THEN sets[c] ELSE r[c]]
         ELSE r : r \in @}]

\* DELETE FROM t WHERE <key column> = ?
SqlDelete(store, t, id) ==
    [store EXCEPT !.rows[t] = {r \in @ : r[KeyCol(t)] # id}]

----------------------------------------------------------------------------
(* CRUD handlers of FoodWasteApp.  Every handler catches Exception and     *)
(* shows a message, so each returns; value is the class of the message.    *)

FoodIds == {1, 2}
ClaimIds == {1, 2}

\* a Quantity field that takes any number
QuantityAccepted_AnyNumber(quantity) == TRUE

\* st.number_input("Quantity*", min_value=1, value=1): the field holds no
\* number below 1
QuantityAccepted(quantity) == quantity >= 1

add_food_listing(food_name, quantity, expiry_date, provider_id, location, food_type, meal_type) ==
    LET p == AddFoodListingPath
        arg == [food_name |-> food_name, quantity |-> quantity,
                expiry_date |-> expiry_date, provider_id |-> provider_id,
                location |-> location, food_type |-> food_type,
                meal_type |-> meal_type]
        cols == [Food_Name |-> food_name, Quantity |-> quantity,
                 Expiry_Date |-> expiry_date, Provider_ID |-> provider_id,
                 Location |-> location, Food_Type |-> food_type,
                 Meal_Type |-> meal_type]
    IN  /\ QuantityAccepted(quantity)
        /\ provider_id >= 1 /\ expiry_date >= Today
        /\ Cardinality(files[p].rows["food_listings"]) < MaxRows
        /\ IF food_name = ""
           THEN /\ files' = files
                /\ last' = Result("add_food_listing", arg, p, "returned",
                                  TRUE, "invalid")
           ELSE IF ~HasTable(files[p], "food_listings")
           THEN /\ files' = files
                /\ last' = SkippedClose(
                      Result("add_food_listing", arg, p, "returned", TRUE, "error"))
           ELSE /\ files' = [files EXCEPT ![p] =
                                SqlInsert(@, "food_listings", cols)]
                /\ last' = Result("add_food_listing", arg, p, "returned",
                                  FALSE, "success")
        /\ UNCHANGED now
        /\ Counted

add_claim(food_id, receiver_id, status) ==
    LET p == AddClaimPath
        arg == [food_id |-> food_id, receiver_id |-> receiver_id,
                status |-> status]
        cols == [Food_ID |-> food_id, Receiver_ID |-> receiver_id,
                 Status |-> status]
    IN  /\ food_id >= 1 /\ receiver_id >= 1
        /\ Cardinality(files[p].rows["claims"]) < MaxRows
        /\ IF ~HasTable(files[p], "claims")
           THEN /\ files' = files
                /\ last' = SkippedClose(
                      Result("add_claim", arg, p, "returned", TRUE, "error"))
           ELSE /\ files' = [files EXCEPT ![p] = SqlInsert(@, "claims", cols)]
                /\ last' = Result("add_claim", arg, p, "returned", FALSE,
                                  "success")
        /\ UNCHANGED now
        /\ Counted

\* the SET list the handler builds: `if new_expiry:` tests a date object,
\* which is always true, so Expiry_Date is always in it
FoodUpdates(new_quantity, new_expiry, update_location) ==
    LET q == IF new_quantity > 0 THEN {"Quantity"} ELSE {}
        e == IF new_expiry # NULL THEN {"Expiry_Date"} ELSE {}
        l == IF update_location # "Keep Current" THEN {"Location"} ELSE {}
    IN  [c \in q \cup e \cup l |->
            CASE c = "Quantity" -> new_quantity
              [] c = "Expiry_Date" -> new_expiry
              [] c = "Location" -> update_location]

update_food_listing(food_id, new_quantity, new_expiry, update_location) ==
    LET p == UpdateFoodListingPath
        arg == [food_id |-> food_id, new_quantity |-> new_quantity,
                new_expiry |-> new_expiry, update_location |-> update_location]
        sets == FoodUpdates(new_quantity, new_expiry, update_location)
    IN  /\ food_id >= 1 /\ new_quantity >= 0
        /\ IF DOMAIN sets = {}
           THEN /\ files' = files
                /\ last' = Result("update_food_listing", arg, p, "returned",
                                  FALSE, "no_updates")
           ELSE IF ~HasTable(files[p], "food_listings")
           THEN /\ files' = files
                /\ last' = SkippedClose(
                      Result("update_food_listing", arg, p, "returned", TRUE, "error"))
           ELSE /\ files' = [files EXCEPT ![p] =
                                SqlUpdate(@, "food_listings", food_id, sets)]
                /\ last' = Result("update_food_listing", arg, p, "returned",
                                  FALSE,
                                  IF Matching(files[p], "food_listings",
                                              food_id) # {}
                                  THEN "success" ELSE "not_found")
        /\ UNCHANGED now
        /\ Counted

update_claim(claim_id, new_status) ==
    LET p == UpdateClaimPath
        arg == [claim_id |-> claim_id, new_status |-> new_status]
    IN  /\ claim_id >= 1
        /\ IF ~HasTable(files[p], "claims")
           THEN /\ files' = files
                /\ last' = SkippedClose(
                      Result("update_claim", arg, p, "returned", TRUE, "error"))
           ELSE /\ files' = [files EXCEPT ![p] =
                      SqlUpdate(@, "claims", claim_id, [Status |-> new_status])]
                /\ last' = Result("update_claim", arg, p, "returned", FALSE,
                                  IF Matching(files[p], "claims", claim_id) # {}
                                  THEN "success" ELSE "not_found")
        /\ UNCHANGED now
        /\ Counted

\* the confirmation checkbox, the SELECT that looks the row up, the DELETE
delete_food_listing(food_id, confirm) ==
    LET p == DeleteFoodListingPath
        arg == [id |-> food_id, confirm |-> confirm]
    IN  /\ food_id >= 1
        /\ IF ~confirm
           THEN /\ files' = files
                /\ last' = Result("delete_food_listing", arg, p, "returned", TRUE,
                                  "unconfirmed")
           ELSE IF ~HasTable(files[p], "food_listings")
           THEN /\ files' = files
                /\ last' = SkippedClose(
                      Result("delete_food_listing", arg, p, "returned", TRUE, "error"))
           ELSE IF Matching(files[p], "food_listings", food_id) = {}
           THEN /\ files' = files
                /\ last' = Result("delete_food_listing", arg, p, "returned", TRUE,
                                  "not_found")
           ELSE /\ files' = [files EXCEPT ![p] =
                                SqlDelete(@, "food_listings", food_id)]
                /\ last' = Result("delete_food_listing", arg, p, "returned", FALSE,
                                  "success")
        /\ UNCHANGED now
        /\ Counted

\* the confirmation checkbox, the SELECT that looks the row up, the DELETE
delete_claim(claim_id, confirm) ==
    LET p == DeleteClaimPath
        arg == [id |-> claim_id, confirm |-> confirm]
    IN  /\ claim_id >= 1
        /\ IF ~confirm
           THEN /\ files' = files
                /\ last' = Result("delete_claim", arg, p, "returned", TRUE,
                                  "unconfirmed")
           ELSE IF ~HasTable(files[p], "claims")
           THEN /\ files' = files
                /\ last' = SkippedClose(
                      Result("delete_claim", arg, p, "returned", TRUE, "error"))
           ELSE IF Matching(files[p], "claims", claim_id) = {}
           THEN /\ files' = files
                /\ last' = Result("delete_claim", arg, p, "returned", TRUE,
                                  "not_found")
           ELSE /\ files' = [files EXCEPT ![p] =
                                SqlDelete(@, "claims", claim_id)]
                /\ last' = Result("delete_claim", arg, p, "returned", FALSE,
                                  "success")
        /\ UNCHANGED now
        /\ Counted

CrudOps == {"add_food_listing", "add_claim", "update_food_listing",
            "update_claim", "delete_food_listing", "delete_claim"}

CrudTable(op) ==
    IF op \in {"add_food_listing", "update_food_listing", "delete_food_listing"}
    THEN "food_listings" ELSE "claims"

----------------------------------------------------------------------------
(* Query Layer: SQLQueries.execute_query and a page that shows its result *)

Columns(t) ==
    CASE t = "providers" -> {"Provider_ID", "Name", "Type", "City",
                             "Contact"}
      [] t = "receivers" -> {"Receiver_ID", "Name", "City"}
      [] t = "food_listings" -> {"Food_ID", "Food_Name", "Quantity",
                                 "Expiry_Date", "Provider_ID", "Location",
                                 "Food_Type", "Meal_Type"}
      [] t = "claims" -> {"Claim_ID", "Food_ID", "Receiver_ID", "Status"}

\* pd.DataFrame(): no column, no row
EmptyFrame == [columns |-> {}, rows |-> {}]

\* the statements passed to the executor: f"SELECT * FROM {table}" and a
\* text SQLite cannot parse
Queries ==
    {[kind |-> "select_all", table |-> t] : t \in Tables}
        \cup {[kind |-> "malformed", table |-> "providers"]}

\* the statement fails when the store cannot be opened, the text does not
\* parse, or the table it names does not exist
QueryFails(store, query, fault) ==
    \/ fault = "unopenable"
    \/ query.kind = "malformed"
    \/ ~HasTable(store, query.table)

\* the executor without its try/except: the exception reaches the caller
ExecuteQuery_Unguarded(store, query, fault) ==
    IF QueryFails(store, query, fault)
    THEN [frame |-> EmptyFrame, reported |-> FALSE, outcome |-> "raised",
          unclosed |-> IF fault = "unopenable" THEN 0 ELSE 1]
    ELSE [frame |-> [columns |-> Columns(query.table),
                     rows |-> store.rows[query.table]],
          reported |-> FALSE, outcome |-> "returned", unclosed |-> 0]

\* [frame, reported]: the whole body is inside try/except Exception, which
\* prints the error and returns pd.DataFrame(); conn.close() is in the try
\* block after read_sql_query, so a statement that fails on an open
\* connection leaves it unclosed
ExecuteQuery(store, query, fault) ==
    IF QueryFails(store, query, fault)
    THEN [frame |-> EmptyFrame, reported |-> TRUE, outcome |-> "returned",
          unclosed |-> IF fault = "unopenable" THEN 0 ELSE 1]
    ELSE [frame |-> [columns |-> Columns(query.table),
                     rows |-> store.rows[query.table]],
          reported |-> FALSE, outcome |-> "returned", unclosed |-> 0]

execute_query(query, fault) ==
    LET p == SQLQueriesDbPath
        r == ExecuteQuery(files[p], query, fault)
    IN  /\ last' = [Result("execute_query",
                                [query |-> query, fault |-> fault],
                                p, r.outcome, r.reported, r.frame)
                            EXCEPT !.unclosed = r.unclosed]
        /\ UNCHANGED <<files, now>>
        /\ Counted

\* DataFrame.empty: no row or no column
FrameEmpty(frame) == frame.rows = {} \/ frame.columns = {}

\* `if not records.empty: st.dataframe(...) else: st.info("No records found")`
RecordsShown(frame) ==
    IF FrameEmpty(frame) THEN "No records found" ELSE "dataframe"

\* FoodWasteApp.view_records: what the page puts on screen
view_records(table, fault) ==
    LET p == SQLQueriesDbPath
        r == ExecuteQuery(files[p], [kind |-> "select_all", table |-> table],
                          fault)
    IN  /\ last' = [Result("view_records",
                                [table |-> table, fault |-> fault],
                                p, r.outcome, r.reported, RecordsShown(r.frame))
                            EXCEPT !.unclosed = r.unclosed]
        /\ UNCHANGED <<files, now>>
        /\ Counted

----------------------------------------------------------------------------
(* Maintenance Utilities: DatabaseUtils *)

\* Expiry_Date < date('now'): dates are kept as ISO-8601 text, whose order
\* is the order of the days, so a date is modelled by its day number; a
\* comparison with NULL is not true
IsExpired(row, today) == row.Expiry_Date # NULL /\ row.Expiry_Date < today

\* SELECT COUNT(*) FROM food_listings WHERE Expiry_Date < date('now')
CountExpired(store, today) ==
    Cardinality({r \in store.rows["food_listings"] : IsExpired(r, today)})

\* the DELETE with <= for <: today's listings go too
DeleteExpired_Inclusive(store, today) ==
    [store EXCEPT !.rows["food_listings"] =
        {r \in @ : ~(r.Expiry_Date # NULL /\ r.Expiry_Date <= today)}]

\* DELETE FROM food_listings WHERE Expiry_Date < date('now')
DeleteExpired(store, today) ==
    [store EXCEPT !.rows["food_listings"] = {r \in @ : ~IsExpired(r, today)}]

\* [store, value, reported, unclosed]: the store afterwards, the count
\* returned, whether the except branch printed an error, and the
\* connections left unclosed (conn.close() is in the try block)
CleanExpiredFood(store, today, fault) ==
    LET expired_count == CountExpired(store, today)
    IN  IF fault = "unopenable" \/ ~HasTable(store, "food_listings")
        THEN [store |-> store, value |-> 0, reported |-> TRUE,
              unclosed |-> IF fault = "unopenable" THEN 0 ELSE 1]
        ELSE [store |-> IF expired_count > 0 THEN DeleteExpired(store, today)
                        ELSE store,
              value |-> expired_count, reported |-> FALSE, unclosed |-> 0]

clean_expired_food(fault) ==
    LET p == DatabaseUtilsDbPath
        r == CleanExpiredFood(files[p], Today, fault)
    IN  /\ files' = [files EXCEPT ![p] = r.store]
        /\ last' = [Result("clean_expired_food", [fault |-> fault], p,
                                "returned", r.reported, r.value)
                            EXCEPT !.unclosed = r.unclosed]
        /\ UNCHANGED now
        /\ Counted

\* clean_expired_food up to the SELECT COUNT(*): connect, count the expired
\* listings into expired_count; with nothing to delete, or on an error,
\* the call is over (it prints, closes and returns the count, or 0 from
\* the except branch).  The SELECT leaves no lock behind.
clean_expired_food_count(c, fault) ==
    LET p == DatabaseUtilsDbPath
        failed == fault = "unopenable" \/ ~HasTable(files[p], "food_listings")
        n == IF failed THEN 0 ELSE CountExpired(files[p], Today)
    IN  /\ running[c].pc = "idle"
        /\ running' = [running EXCEPT ![c] =
              [pc |-> IF n > 0 THEN "counted" ELSE "done",
               expired_count |-> n, rowcount |-> 0, returned |-> 0]]
        /\ last' = IF n > 0 THEN last
                   ELSE [Result("clean_expired_food",
                                [fault |-> fault, caller |-> c], p,
                                "returned", failed, 0)
                           EXCEPT !.unclosed =
                               IF failed /\ fault # "unopenable" THEN 1 ELSE 0]
        /\ UNCHANGED <<files, now, calls>>

\* the DELETE and conn.commit(): SQLite runs the two as one transaction,
\* which no other writer's transaction overlaps
clean_expired_food_delete(c) ==
    LET p == DatabaseUtilsDbPath
    IN  /\ running[c].pc = "counted"
        /\ files' = [files EXCEPT ![p] = DeleteExpired(@, Today)]
        /\ running' = [running EXCEPT ![c].pc = "deleted",
                                      ![c].rowcount =
                                          CountExpired(files[p], Today)]
        /\ UNCHANGED <<now, last, calls>>

\* print(f"Removed {expired_count} ..."); conn.close(); return expired_count
clean_expired_food_return(c) ==
    /\ running[c].pc = "deleted"
    /\ running' = [running EXCEPT ![c].pc = "done",
                                  ![c].returned = running[c].expired_count]
    /\ last' = Result("clean_expired_food", [fault |-> "none", caller |-> c],
                      DatabaseUtilsDbPath, "returned", FALSE,
                      running[c].expired_count)
    /\ UNCHANGED <<files, now, calls>>

\* backup_path: "None" for the default, a name built from the clock
BackupTarget(backup_path) ==
    IF backup_path = "None" THEN DefaultBackupPath(now) ELSE backup_path

\* Connection.backup copies every page of the source over the target
backup_database(backup_path, fault) ==
    LET p == DatabaseUtilsDbPath
        target == BackupTarget(backup_path)
        arg == [backup_path |-> backup_path, fault |-> fault]
    IN  /\ IF fault = "unopenable"
           THEN /\ files' = files
                /\ last' = Result("backup_database", arg, p, "returned", TRUE,
                                  "None")
           ELSE /\ files' = [files EXCEPT ![target] = files[p]]
                /\ last' = Result("backup_database", arg, p, "returned", FALSE,
                                  target)
        /\ UNCHANGED now
        /\ Counted

----------------------------------------------------------------------------
(* Reports: the query_N methods of SQLQueries.  Each passes one SELECT to  *)
(* execute_query.  A result row carries, besides its columns, the rowids   *)
(* of the rows it was computed from (src), so that two result rows with    *)
(* equal columns stay two rows.                                            *)

RECURSIVE SumQuantity(_)
SumQuantity(rows) ==
    IF rows = {} THEN 0
    ELSE LET r == CHOOSE x \in rows : TRUE
         IN  r.Quantity + SumQuantity(rows \ {r})

\* SUM(Quantity): NULL over no row
SqlSum(rows) == IF rows = {} THEN NULL ELSE SumQuantity(rows)

\* COUNT(col): the rows whose col is not NULL
SqlCount(rows, col) == Cardinality({r \in rows : r[col] # NULL})

\* CAST(... AS INTEGER) of the hundredths for ROUND: the value is cut
Round2_Truncated(num, den) == (100 * num) \div den

\* ROUND(num * 1.0 / den, 2) for num >= 0 and den > 0, in hundredths
Round2(num, den) == (2 * 100 * num + den) \div (2 * den)

\* ROUND(AVG(Quantity), 2), in hundredths: NULL over no row
SqlAvg2(rows) ==
    IF rows = {} THEN NULL ELSE Round2(SumQuantity(rows), Cardinality(rows))

\* what execute_query returns for a report that reads the tables `reads`
\* and whose SELECT yields `frame`
ExecuteReport(store, reads, frame, fault) ==
    IF fault = "unopenable" \/ \E t \in reads : ~HasTable(store, t)
    THEN [frame |-> EmptyFrame, reported |-> TRUE, outcome |-> "returned",
          unclosed |-> IF fault = "unopenable" THEN 0 ELSE 1]
    ELSE [frame |-> frame, reported |-> FALSE, outcome |-> "returned",
          unclosed |-> 0]

\* the record a report leaves in `last`
ReportResult(op, fault, r) ==
    [Result(op, [fault |-> fault], SQLQueriesDbPath, r.outcome, r.reported,
            r.frame) EXCEPT !.unclosed = r.unclosed]

\* the record a report that reads julianday('now') leaves in `last`: the
\* moment t of the call is one of its inputs
TimedReportResult(op, fault, t, r) ==
    [ReportResult(op, fault, r) EXCEPT !.arg = [fault |-> fault, now |-> t]]

\* SELECT SUM(Quantity), COUNT(Food_ID), COUNT(DISTINCT Provider_ID),
\*        ROUND(AVG(Quantity), 2) FROM food_listings
Query5(store) ==
    LET fl == store.rows["food_listings"]
    IN  [columns |-> {"Total_Available_Quantity", "Total_Food_Items",
                      "Active_Providers", "Avg_Quantity_Per_Item"},
         rows |-> {[src |-> <<>>,
                    Total_Available_Quantity |-> SqlSum(fl),
                    Total_Food_Items |-> SqlCount(fl, "Food_ID"),
                    Active_Providers |->
                        Cardinality({r.Provider_ID : r \in fl} \ {NULL}),
                    Avg_Quantity_Per_Item |-> SqlAvg2(fl)]}]

query_5_total_food_quantity(fault) ==
    /\ last' = ReportResult("query_5", fault,
                  ExecuteReport(files[SQLQueriesDbPath], {"food_listings"},
                                Query5(files[SQLQueriesDbPath]), fault))
    /\ UNCHANGED <<files, now>>
    /\ Counted

\* SELECT Status, COUNT(*), ROUND(COUNT(*) * 100.0 /
\*        (SELECT COUNT(*) FROM claims), 2) FROM claims GROUP BY Status
Query10(store) ==
    LET cl == store.rows["claims"]
        group(st) == {c \in cl : c.Status = st}
    IN  [columns |-> {"Status", "Count", "Percentage"},
         rows |-> {[src |-> <<st>>,
                    Status |-> st,
                    Count |-> Cardinality(group(st)),
                    Percentage |-> Round2(Cardinality(group(st)) * 100,
                                          Cardinality(cl))] :
                   st \in {c.Status : c \in cl}}]

query_10_claim_status_distribution(fault) ==
    /\ last' = ReportResult("query_10", fault,
                  ExecuteReport(files[SQLQueriesDbPath], {"claims"},
                                Query10(files[SQLQueriesDbPath]), fault))
    /\ UNCHANGED <<files, now>>
    /\ Counted

\* d days, in ticks of the clock
Days(d) == d * TicksPerDay

\* julianday(Expiry_Date) - julianday('now'), in ticks: the date is the
\* midnight that starts its day, 'now' is the current moment
DaysUntilExpiry(row, t) == Days(row.Expiry_Date) - t

\* the CASE with <= 0 for < 0: a listing that expires this very moment
\* counts as expired
ExpiryStatus_Inclusive(du) ==
    IF du <= 0 THEN "Expired"
    ELSE IF du <= Days(1) THEN "Critical"
    ELSE IF du <= Days(3) THEN "Warning"
    ELSE "Safe"

\* CASE WHEN d < 0 THEN 'Expired' WHEN d <= 1 THEN 'Critical'
\*      WHEN d <= 3 THEN 'Warning' ELSE 'Safe' END
ExpiryStatus(du) ==
    IF du < 0 THEN "Expired"
    ELSE IF du <= Days(1) THEN "Critical"
    ELSE IF du <= Days(3) THEN "Warning"
    ELSE "Safe"

\* SELECT ..., julianday(Expiry_Date) - julianday('now') as Days_Until_Expiry,
\*        CASE ... END as Status FROM food_listings
\* WHERE julianday(Expiry_Date) - julianday('now') <= 5
\* (julianday(NULL) is NULL, and a comparison with NULL selects nothing)
Query14(store, t) ==
    [columns |-> {"Food_Name", "Quantity", "Expiry_Date", "Location",
                  "Food_Type", "Meal_Type", "Days_Until_Expiry", "Status"},
     rows |-> {[src |-> <<f.rowid>>,
                Food_Name |-> f.Food_Name,
                Quantity |-> f.Quantity,
                Expiry_Date |-> f.Expiry_Date,
                Location |-> f.Location,
                Food_Type |-> f.Food_Type,
                Meal_Type |-> f.Meal_Type,
                Days_Until_Expiry |-> DaysUntilExpiry(f, t),
                Status |-> ExpiryStatus(DaysUntilExpiry(f, t))] :
               f \in {g \in store.rows["food_listings"] :
                        /\ g.Expiry_Date # NULL
                        /\ DaysUntilExpiry(g, t) <= Days(5)}}]

\* the report that also removes the listings it found expired
query_14_expiring_food_Purging(fault) ==
    /\ last' = TimedReportResult("query_14", fault, now,
                  ExecuteReport(files[SQLQueriesDbPath], {"food_listings"},
                                Query14(files[SQLQueriesDbPath], now), fault))
    /\ files' = [files EXCEPT ![SQLQueriesDbPath] = DeleteExpired(@, Today)]
    /\ UNCHANGED now
    /\ Counted

query_14_expiring_food(fault) ==
    /\ last' = TimedReportResult("query_14", fault, now,
                  ExecuteReport(files[SQLQueriesDbPath], {"food_listings"},
                                Query14(files[SQLQueriesDbPath], now), fault))
    /\ UNCHANGED <<files, now>>
    /\ Counted

\* the rows of t that JOIN ... ON row[col] = t[col2] pairs with row: NULL
\* equals nothing
JoinOn(row, col, rows, col2) ==
    {x \in rows : row[col] # NULL /\ x[col2] = row[col]}

\* the join that pairs a listing only with its claims that are not
\* Cancelled
ClaimsOf_NotCancelled(store, f) ==
    {c \in JoinOn(f, "Food_ID", store.rows["claims"], "Food_ID") :
        c.Status # "Cancelled"}

\* LEFT JOIN claims c ON fl.Food_ID = c.Food_ID
ClaimsOf(store, f) == JoinOn(f, "Food_ID", store.rows["claims"], "Food_ID")

\* SELECT fl.*, p.Name, p.Contact, julianday(fl.Expiry_Date) - julianday('now')
\* FROM food_listings fl JOIN providers p ON fl.Provider_ID = p.Provider_ID
\* LEFT JOIN claims c ON fl.Food_ID = c.Food_ID WHERE c.Food_ID IS NULL
\* (Days_Until_Expiry is << >> for NULL, else <<ticks>>)
Query15(store, t) ==
    [columns |-> {"Food_Name", "Quantity", "Expiry_Date", "Location",
                  "Provider_Name", "Provider_Contact", "Days_Until_Expiry"},
     rows |-> {[src |-> <<pair[1].rowid, pair[2].rowid>>,
                Food_Name |-> pair[1].Food_Name,
                Quantity |-> pair[1].Quantity,
                Expiry_Date |-> pair[1].Expiry_Date,
                Location |-> pair[1].Location,
                Provider_Name |-> pair[2].Name,
                Provider_Contact |-> pair[2].Contact,
                Days_Until_Expiry |->
                    IF pair[1].Expiry_Date = NULL THEN << >>
                    ELSE <<DaysUntilExpiry(pair[1], t)>>] :
               pair \in {q \in store.rows["food_listings"]
                                 \X store.rows["providers"] :
                           /\ q[2] \in JoinOn(q[1], "Provider_ID",
                                               store.rows["providers"],
                                               "Provider_ID")
                           /\ ClaimsOf(store, q[1]) = {}}}]

query_15_unclaimed_food(fault) ==
    /\ last' = TimedReportResult("query_15", fault, now,
                  ExecuteReport(files[SQLQueriesDbPath],
                                {"food_listings", "providers", "claims"},
                                Query15(files[SQLQueriesDbPath], now), fault))
    /\ UNCHANGED <<files, now>>
    /\ Counted

\* SUM(CASE WHEN c.Status = st THEN 1 ELSE 0 END) over joined rows: the
\* pairs (listing, claim) whose claim has that Status
CountStatus(pairs, st) == Cardinality({q \in pairs : q[2].Status = st})

\* COUNT(c.Claim_ID) over joined rows: the pairs whose claim has a Claim_ID
\* that is not NULL
CountClaimId(pairs) == Cardinality({q \in pairs : q[2].Claim_ID # NULL})

\* the rows of FROM food_listings fl LEFT JOIN claims c ON fl.Food_ID =
\* c.Food_ID that hold a claim, for the listings fls
ListingClaimPairs(store, fls) ==
    {q \in fls \X store.rows["claims"] : q[2] \in ClaimsOf(store, q[1])}

\* SELECT fl.Food_Name, fl.Quantity, fl.Location, COUNT(c.Claim_ID),
\*        SUM(CASE WHEN c.Status = 'Completed' THEN 1 ELSE 0 END), ...
\* FROM food_listings fl LEFT JOIN claims c ON fl.Food_ID = c.Food_ID
\* GROUP BY fl.Food_ID, fl.Food_Name, fl.Quantity, fl.Location
Query8(store) ==
    LET fl == store.rows["food_listings"]
        key(f) == <<f.Food_ID, f.Food_Name, f.Quantity, f.Location>>
        group(k) == {f \in fl : key(f) = k}
        pairs(k) == ListingClaimPairs(store, group(k))
    IN  [columns |-> {"Food_Name", "Available_Quantity", "Location",
                      "Total_Claims", "Completed_Claims", "Pending_Claims",
                      "Cancelled_Claims"},
         rows |-> {[src |-> {f.rowid : f \in group(k)},
                    Food_Name |-> k[2],
                    Available_Quantity |-> k[3],
                    Location |-> k[4],
                    Total_Claims |-> CountClaimId(pairs(k)),
                    Completed_Claims |-> CountStatus(pairs(k), "Completed"),
                    Pending_Claims |-> CountStatus(pairs(k), "Pending"),
                    Cancelled_Claims |-> CountStatus(pairs(k), "Cancelled")] :
                   k \in {key(f) : f \in fl}}]

\* SELECT p.Name, p.Type, p.City, COUNT(c.Claim_ID),
\*        SUM(CASE WHEN c.Status = 'Completed' THEN 1 ELSE 0 END),
\*        ROUND(SUM(CASE ... THEN 1.0 ELSE 0 END) * 100.0 /
\*              NULLIF(COUNT(c.Claim_ID), 0), 2)
\* FROM providers p JOIN food_listings fl ON p.Provider_ID = fl.Provider_ID
\* LEFT JOIN claims c ON fl.Food_ID = c.Food_ID
\* WHERE c.Claim_ID IS NOT NULL
\* GROUP BY p.Provider_ID, p.Name, p.Type, p.City
\* (Success_Rate_Percent in hundredths)
Query9(store) ==
    LET pv == store.rows["providers"]
        key(x) == <<x.Provider_ID, x.Name, x.Type, x.City>>
        group(k) == {x \in pv : key(x) = k}
        listings(k) ==
            {f \in store.rows["food_listings"] :
                \E x \in group(k) :
                    x \in JoinOn(f, "Provider_ID", pv, "Provider_ID")}
        pairs(k) == {q \in ListingClaimPairs(store, listings(k)) :
                        q[2].Claim_ID # NULL}
    IN  [columns |-> {"Name", "Type", "City", "Total_Claims",
                      "Successful_Claims", "Success_Rate_Percent"},
         rows |-> {[src |-> {x.rowid : x \in group(k)},
                    Name |-> k[2],
                    Type |-> k[3],
                    City |-> k[4],
                    Total_Claims |-> CountClaimId(pairs(k)),
                    Successful_Claims |-> CountStatus(pairs(k), "Completed"),
                    Success_Rate_Percent |->
                        IF CountClaimId(pairs(k)) = 0 THEN NULL
                        ELSE Round2(CountStatus(pairs(k), "Completed") * 100,
                                    CountClaimId(pairs(k)))] :
                   k \in {key(x) : x \in {y \in pv : pairs(key(y)) # {}}}}]

query_9_successful_providers(fault) ==
    /\ last' = ReportResult("query_9", fault,
                  ExecuteReport(files[SQLQueriesDbPath],
                                {"providers", "food_listings", "claims"},
                                Query9(files[SQLQueriesDbPath]), fault))
    /\ UNCHANGED <<files, now>>
    /\ Counted

query_8_claims_per_food_item(fault) ==
    /\ last' = ReportResult("query_8", fault,
                  ExecuteReport(files[SQLQueriesDbPath],
                                {"food_listings", "claims"},
                                Query8(files[SQLQueriesDbPath]), fault))
    /\ UNCHANGED <<files, now>>
    /\ Counted

\* the columns of claims in a row of a LEFT JOIN that found no claim for
\* its listing: all NULL
NoClaim ==
    [rowid |-> NULL, Claim_ID |-> NULL, Food_ID |-> NULL,
     Receiver_ID |-> NULL, Status |-> "NULL"]

\* the rows of FROM food_listings fl LEFT JOIN claims c ON fl.Food_ID =
\* c.Food_ID for the listings fls: one row for each claim of a listing, and
\* one row with NULLs for a listing without claims
LeftJoinClaims(store, fls) ==
    {q \in fls \X (store.rows["claims"] \cup {NoClaim}) :
        IF ClaimsOf(store, q[1]) = {} THEN q[2] = NoClaim
        ELSE q[2] \in ClaimsOf(store, q[1])}

\* SUM(fl.Quantity) over joined rows (0 over no row)
RECURSIVE SumJoinedQuantity(_)
SumJoinedQuantity(pairs) ==
    IF pairs = {} THEN 0
    ELSE LET q == CHOOSE x \in pairs : TRUE
         IN  q[1].Quantity + SumJoinedQuantity(pairs \ {q})

\* SUM(CASE WHEN c.Status = 'Completed' THEN fl.Quantity ELSE 0 END) over
\* joined rows
SumCompletedQuantity(pairs) ==
    SumJoinedQuantity({q \in pairs : q[2].Status = "Completed"})

\* ROUND(num * 100.0 / den, 2) in hundredths; a division by 0 or by NULL
\* is NULL in SQLite
RatePercent(num, den) ==
    IF den = NULL \/ den = 0 THEN NULL ELSE Round2(num * 100, den)

\* SELECT fl.Meal_Type, COUNT(c.Claim_ID),
\*        SUM(CASE WHEN c.Status = 'Completed' THEN fl.Quantity ELSE 0 END),
\*        SUM(fl.Quantity),
\*        ROUND(SUM(CASE ...) * 100.0 / SUM(fl.Quantity), 2)
\* FROM food_listings fl LEFT JOIN claims c ON fl.Food_ID = c.Food_ID
\* GROUP BY fl.Meal_Type
Query12(store) ==
    LET fl == store.rows["food_listings"]
        group(m) == {f \in fl : f.Meal_Type = m}
        joined(m) == LeftJoinClaims(store, group(m))
    IN  [columns |-> {"Meal_Type", "Total_Claims", "Quantity_Claimed",
                      "Total_Available", "Claim_Rate_Percent"},
         rows |-> {[src |-> {f.rowid : f \in group(m)},
                    Meal_Type |-> m,
                    Total_Claims |-> CountClaimId(joined(m)),
                    Quantity_Claimed |-> SumCompletedQuantity(joined(m)),
                    Total_Available |-> SumJoinedQuantity(joined(m)),
                    Claim_Rate_Percent |->
                        RatePercent(SumCompletedQuantity(joined(m)),
                                    SumJoinedQuantity(joined(m)))] :
                   m \in {f.Meal_Type : f \in fl}}]

query_12_popular_meal_types(fault) ==
    /\ last' = ReportResult("query_12", fault,
                  ExecuteReport(files[SQLQueriesDbPath],
                                {"food_listings", "claims"},
                                Query12(files[SQLQueriesDbPath]), fault))
    /\ UNCHANGED <<files, now>>
    /\ Counted

\* the rows of FROM providers p LEFT JOIN food_listings fl ON p.Provider_ID
\* = fl.Provider_ID LEFT JOIN claims c ON fl.Food_ID = c.Food_ID for the
\* providers pvs that have a listing, as pairs of listing and claim
ProviderJoin(store, pvs) ==
    LeftJoinClaims(store,
        {f \in store.rows["food_listings"] :
            \E x \in pvs :
                f \in JoinOn(x, "Provider_ID", store.rows["food_listings"],
                             "Provider_ID")})

\* SELECT p.Name, p.Type, p.City, COUNT(fl.Food_ID), SUM(fl.Quantity),
\*        SUM(CASE WHEN c.Status = 'Completed' THEN fl.Quantity ELSE 0 END),
\*        ROUND(SUM(CASE ...) * 100.0 / NULLIF(SUM(fl.Quantity), 0), 2)
\* FROM providers p LEFT JOIN food_listings fl ON ... LEFT JOIN claims c ON ...
\* GROUP BY p.Provider_ID, p.Name, p.Type, p.City
\* (a provider without listings is one joined row of NULLs: COUNT is 0, SUM
\* of fl.Quantity is NULL and the SUM of the CASE is 0)
Query13(store) ==
    LET pv == store.rows["providers"]
        key(x) == <<x.Provider_ID, x.Name, x.Type, x.City>>
        group(k) == {x \in pv : key(x) = k}
        joined(k) == ProviderJoin(store, group(k))
        listed(k) == IF joined(k) = {} THEN NULL
                     ELSE SumJoinedQuantity(joined(k))
    IN  [columns |-> {"Name", "Type", "City", "Items_Listed",
                      "Total_Quantity_Listed", "Quantity_Donated",
                      "Donation_Rate_Percent"},
         rows |-> {[src |-> {x.rowid : x \in group(k)},
                    Name |-> k[2],
                    Type |-> k[3],
                    City |-> k[4],
                    Items_Listed |->
                        Cardinality({q \in joined(k) : q[1].Food_ID # NULL}),
                    Total_Quantity_Listed |-> listed(k),
                    Quantity_Donated |-> SumCompletedQuantity(joined(k)),
                    Donation_Rate_Percent |->
                        RatePercent(SumCompletedQuantity(joined(k)),
                                    listed(k))] :
                   k \in {key(x) : x \in pv}}]

query_13_provider_donations(fault) ==
    /\ last' = ReportResult("query_13", fault,
                  ExecuteReport(files[SQLQueriesDbPath],
                                {"providers", "food_listings", "claims"},
                                Query13(files[SQLQueriesDbPath]), fault))
    /\ UNCHANGED <<files, now>>
    /\ Counted

\* the columns of food_listings in a row of a LEFT JOIN that found no
\* listing for its claim: all NULL
NoListing ==
    [rowid |-> NULL, Food_ID |-> NULL, Food_Name |-> "NULL", Quantity |-> NULL,
     Expiry_Date |-> NULL, Provider_ID |-> NULL, Location |-> "NULL",
     Food_Type |-> "NULL", Meal_Type |-> "NULL"]

\* the sum of the values of vals, a set of pairs <<row, value>>
RECURSIVE SumValues(_)
SumValues(vals) ==
    IF vals = {} THEN 0
    ELSE LET x == CHOOSE y \in vals : TRUE
         IN  x[2] + SumValues(vals \ {x})

\* SUM(expr) over the rows of a group, given as pairs <<row, value of expr>>:
\* NULL values are skipped, and the sum over no value is NULL
SqlSumValues(vals) ==
    LET nn == {x \in vals : x[2] # NULL}
    IN  IF nn = {} THEN NULL ELSE SumValues(nn)

\* ROUND(AVG(expr), 2) over such pairs, in hundredths
SqlAvgValues2(vals) ==
    LET nn == {x \in vals : x[2] # NULL}
    IN  IF nn = {} THEN NULL ELSE Round2(SumValues(nn), Cardinality(nn))

\* SELECT City, COUNT(*), 'Providers' FROM providers GROUP BY City
\* UNION ALL SELECT City, COUNT(*), 'Receivers' FROM receivers GROUP BY City
Query1(store) ==
    LET part(t, label) ==
            {[src |-> {x.rowid : x \in {y \in store.rows[t] : y.City = c}},
              City |-> c,
              Count |-> Cardinality({y \in store.rows[t] : y.City = c}),
              Type |-> label] : c \in {y.City : y \in store.rows[t]}}
    IN  [columns |-> {"City", "Count", "Type"},
         rows |-> part("providers", "Providers")
                    \cup part("receivers", "Receivers")]

query_1_providers_receivers_by_city(fault) ==
    /\ last' = ReportResult("query_1", fault,
                  ExecuteReport(files[SQLQueriesDbPath],
                                {"providers", "receivers"},
                                Query1(files[SQLQueriesDbPath]), fault))
    /\ UNCHANGED <<files, now>>
    /\ Counted

\* SELECT p.Type, SUM(fl.Quantity), COUNT(fl.Food_ID),
\*        ROUND(AVG(fl.Quantity), 2)
\* FROM providers p JOIN food_listings fl ON p.Provider_ID = fl.Provider_ID
\* GROUP BY p.Type
\* (a joined row is a pair of listing and provider)
Query2(store) ==
    LET pv == store.rows["providers"]
        joined == {q \in store.rows["food_listings"] \X pv :
                      q[2] \in JoinOn(q[1], "Provider_ID", pv, "Provider_ID")}
        group(ty) == {q \in joined : q[2].Type = ty}
    IN  [columns |-> {"Provider_Type", "Total_Quantity", "Total_Items",
                      "Avg_Quantity"},
         rows |-> {[src |-> {<<q[1].rowid, q[2].rowid>> : q \in group(ty)},
                    Provider_Type |-> ty,
                    Total_Quantity |-> SumJoinedQuantity(group(ty)),
                    Total_Items |->
                        Cardinality({q \in group(ty) : q[1].Food_ID # NULL}),
                    Avg_Quantity |->
                        Round2(SumJoinedQuantity(group(ty)),
                               Cardinality(group(ty)))] :
                   ty \in {q[2].Type : q \in joined}}]

query_2_provider_type_contribution(fault) ==
    /\ last' = ReportResult("query_2", fault,
                  ExecuteReport(files[SQLQueriesDbPath],
                                {"providers", "food_listings"},
                                Query2(files[SQLQueriesDbPath]), fault))
    /\ UNCHANGED <<files, now>>
    /\ Counted

\* the rows of FROM receivers r LEFT JOIN claims c ON r.Receiver_ID =
\* c.Receiver_ID LEFT JOIN food_listings fl ON c.Food_ID = fl.Food_ID for
\* the receivers rs, as triples of receiver, claim and listing
ReceiverJoin(store, rs) ==
    LET cl == store.rows["claims"]
        fl == store.rows["food_listings"]
    IN  {q \in rs \X (cl \cup {NoClaim}) \X (fl \cup {NoListing}) :
            /\ IF JoinOn(q[1], "Receiver_ID", cl, "Receiver_ID") = {}
               THEN q[2] = NoClaim
               ELSE q[2] \in JoinOn(q[1], "Receiver_ID", cl, "Receiver_ID")
            /\ IF JoinOn(q[2], "Food_ID", fl, "Food_ID") = {}
               THEN q[3] = NoListing
               ELSE q[3] \in JoinOn(q[2], "Food_ID", fl, "Food_ID")}

\* CASE WHEN c.Status = st THEN fl.Quantity ELSE other END for each joined
\* row, as pairs <<row, value>>
QuantityWhen(triples, st, other) ==
    {<<<<q[1].rowid, q[2].rowid, q[3].rowid>>,
       IF q[2].Status = st THEN q[3].Quantity ELSE other>> : q \in triples}

\* SELECT r.Name, r.City, COUNT(c.Claim_ID),
\*        SUM(CASE WHEN c.Status = 'Completed' THEN fl.Quantity ELSE 0 END),
\*        SUM(CASE WHEN c.Status = 'Pending' THEN fl.Quantity ELSE 0 END)
\* FROM receivers r LEFT JOIN claims c ON ... LEFT JOIN food_listings fl ON ...
\* GROUP BY r.Receiver_ID, r.Name, r.Type, r.City
Query4(store) ==
    LET rc == store.rows["receivers"]
        key(x) == <<x.Receiver_ID, x.Name, x.City>>
        group(k) == {x \in rc : key(x) = k}
        joined(k) == ReceiverJoin(store, group(k))
    IN  [columns |-> {"Name", "City", "Total_Claims", "Food_Received",
                      "Food_Pending"},
         rows |-> {[src |-> {x.rowid : x \in group(k)},
                    Name |-> k[2],
                    City |-> k[3],
                    Total_Claims |->
                        Cardinality({q \in joined(k) : q[2].Claim_ID # NULL}),
                    Food_Received |->
                        SqlSumValues(QuantityWhen(joined(k), "Completed", 0)),
                    Food_Pending |->
                        SqlSumValues(QuantityWhen(joined(k), "Pending", 0))] :
                   k \in {key(x) : x \in rc}}]

query_4_top_claiming_receivers(fault) ==
    /\ last' = ReportResult("query_4", fault,
                  ExecuteReport(files[SQLQueriesDbPath],
                                {"receivers", "claims", "food_listings"},
                                Query4(files[SQLQueriesDbPath]), fault))
    /\ UNCHANGED <<files, now>>
    /\ Counted

\* SELECT Location, COUNT(Food_ID), SUM(Quantity), ROUND(AVG(Quantity), 2)
\* FROM food_listings GROUP BY Location
Query6(store) ==
    LET fl == store.rows["food_listings"]
        group(c) == {f \in fl : f.Location = c}
    IN  [columns |-> {"City", "Total_Listings", "Total_Quantity",
                      "Avg_Quantity"},
         rows |-> {[src |-> {f.rowid : f \in group(c)},
                    City |-> c,
                    Total_Listings |-> SqlCount(group(c), "Food_ID"),
                    Total_Quantity |-> SqlSum(group(c)),
                    Avg_Quantity |-> SqlAvg2(group(c))] :
                   c \in {f.Location : f \in fl}}]

query_6_city_food_listings(fault) ==
    /\ last' = ReportResult("query_6", fault,
                  ExecuteReport(files[SQLQueriesDbPath], {"food_listings"},
                                Query6(files[SQLQueriesDbPath]), fault))
    /\ UNCHANGED <<files, now>>
    /\ Counted

\* SELECT Food_Type, COUNT(Food_ID), SUM(Quantity), ROUND(AVG(Quantity), 2),
\*        ROUND(COUNT(Food_ID) * 100.0 /
\*              (SELECT COUNT(*) FROM food_listings), 2)
\* FROM food_listings GROUP BY Food_Type
Query7(store) ==
    LET fl == store.rows["food_listings"]
        group(ty) == {f \in fl : f.Food_Type = ty}
    IN  [columns |-> {"Food_Type", "Total_Items", "Total_Quantity",
                      "Avg_Quantity", "Percentage"},
         rows |-> {[src |-> {f.rowid : f \in group(ty)},
                    Food_Type |-> ty,
                    Total_Items |-> SqlCount(group(ty), "Food_ID"),
                    Total_Quantity |-> SqlSum(group(ty)),
                    Avg_Quantity |-> SqlAvg2(group(ty)),
                    Percentage |->
                        Round2(SqlCount(group(ty), "Food_ID") * 100,
                               Cardinality(fl))] :
                   ty \in {f.Food_Type : f \in fl}}]

query_7_common_food_types(fault) ==
    /\ last' = ReportResult("query_7", fault,
                  ExecuteReport(files[SQLQueriesDbPath], {"food_listings"},
                                Query7(files[SQLQueriesDbPath]), fault))
    /\ UNCHANGED <<files, now>>
    /\ Counted

\* SELECT r.Name, r.City, COUNT(c.Claim_ID) as Total_Claims,
\*        SUM(CASE WHEN c.Status = 'Completed' THEN fl.Quantity ELSE 0 END),
\*        ROUND(AVG(CASE WHEN c.Status = 'Completed' THEN fl.Quantity
\*                       ELSE NULL END), 2)
\* FROM receivers r LEFT JOIN claims c ON ... LEFT JOIN food_listings fl ON ...
\* GROUP BY r.Receiver_ID, r.Name, r.Type, r.City HAVING Total_Claims > 0
Query11(store) ==
    LET rc == store.rows["receivers"]
        key(x) == <<x.Receiver_ID, x.Name, x.City>>
        group(k) == {x \in rc : key(x) = k}
        joined(k) == ReceiverJoin(store, group(k))
        total(k) == Cardinality({q \in joined(k) : q[2].Claim_ID # NULL})
    IN  [columns |-> {"Name", "City", "Total_Claims", "Total_Food_Received",
                      "Avg_Quantity_Per_Claim"},
         rows |-> {[src |-> {x.rowid : x \in group(k)},
                    Name |-> k[2],
                    City |-> k[3],
                    Total_Claims |-> total(k),
                    Total_Food_Received |->
                        SqlSumValues(QuantityWhen(joined(k), "Completed", 0)),
                    Avg_Quantity_Per_Claim |->
                        SqlAvgValues2(QuantityWhen(joined(k), "Completed",
                                                   NULL))] :
                   k \in {key(x) : x \in {y \in rc : total(key(y)) > 0}}}]

query_11_avg_quantity_per_receiver(fault) ==
    /\ last' = ReportResult("query_11", fault,
                  ExecuteReport(files[SQLQueriesDbPath],
                                {"receivers", "claims", "food_listings"},
                                Query11(files[SQLQueriesDbPath]), fault))
    /\ UNCHANGED <<files, now>>
    /\ Counted

\* the query text of query_3_provider_contacts_by_city: a constant
Query3Text ==
    "SELECT Name, Type, Address, Contact FROM providers WHERE City = ? ORDER BY Type, Name"

\* self.execute_query(query, (city,))
Query3Statement(city) == [sqlText |-> Query3Text, params |-> <<city>>]

\* query = "SELECT * FROM food_listings WHERE 1=1"
SearchBase == "SELECT * FROM food_listings WHERE 1=1"

\* the columns search_filter can filter on, in the order of its three ifs
FilterColumns == <<"Food_Type", "Meal_Type", "Location">>

\* the condition with the chosen value written into the text
AddFilter_Interpolated(st, col, value) ==
    [sqlText |-> st.sqlText \o " AND " \o col \o " = '" \o value \o "'",
     params |-> st.params]

\* query += " AND <col> = ?"; params.append(value)
AddFilter(st, col, value) ==
    [sqlText |-> st.sqlText \o " AND " \o col \o " = ?",
     params |-> Append(st.params, value)]

\* the statement search_filter builds from its three selections: a
\* condition is added only for a selection other than "All"
SearchStatement(food_type_filter, meal_type_filter, city_filter) ==
    LET s0 == [sqlText |-> SearchBase, params |-> << >>]
        s1 == IF food_type_filter # "All"
              THEN AddFilter(s0, FilterColumns[1], food_type_filter) ELSE s0
        s2 == IF meal_type_filter # "All"
              THEN AddFilter(s1, FilterColumns[2], meal_type_filter) ELSE s1
    IN  IF city_filter # "All"
        THEN AddFilter(s2, FilterColumns[3], city_filter) ELSE s2

\* how SQLite reads a text of the search form: the columns its placeholders
\* stand next to, in the order of the placeholders, for the conditions S
PlaceholderColumns(S) ==
    (IF 1 \in S THEN <<FilterColumns[1]>> ELSE << >>)
      \o (IF 2 \in S THEN <<FilterColumns[2]>> ELSE << >>)
      \o (IF 3 \in S THEN <<FilterColumns[3]>> ELSE << >>)

\* the text of the search form with the conditions S
PlaceholderText(S) ==
    SearchBase
      \o (IF 1 \in S THEN " AND Food_Type = ?" ELSE "")
      \o (IF 2 \in S THEN " AND Meal_Type = ?" ELSE "")
      \o (IF 3 \in S THEN " AND Location = ?" ELSE "")

\* pd.read_sql_query(query, conn, params=params) for the two statements
\* with placeholders: parameter i is bound to placeholder i and compared as
\* a value; a text SQLite cannot read this way, or a number of parameters
\* other than the number of placeholders, is an error
BoundSelect(store, st) ==
    IF st.sqlText = Query3Text /\ Len(st.params) = 1
    THEN [ok |-> TRUE, reads |-> {"providers"},
          frame |-> [columns |-> {"Name", "Type", "Contact"},
                     rows |-> {[src |-> <<x.rowid>>, Name |-> x.Name,
                                Type |-> x.Type, Contact |-> x.Contact] :
                               x \in {y \in store.rows["providers"] :
                                        y.City = st.params[1]}}]]
    ELSE IF \E S \in SUBSET (1..3) :
               /\ PlaceholderText(S) = st.sqlText
               /\ Len(st.params) = Cardinality(S)
    THEN LET S == CHOOSE T \in SUBSET (1..3) : PlaceholderText(T) = st.sqlText
             cols == PlaceholderColumns(S)
         IN  [ok |-> TRUE, reads |-> {"food_listings"},
              frame |-> [columns |-> Columns("food_listings"),
                         rows |-> {f \in store.rows["food_listings"] :
                                     \A i \in 1..Len(cols) :
                                        f[cols[i]] = st.params[i]}]]
    ELSE [ok |-> FALSE, reads |-> {}, frame |-> EmptyFrame]

\* execute_query(query, params) for a statement with parameters
ExecuteBound(store, st, fault) ==
    LET b == BoundSelect(store, st)
    IN  IF b.ok THEN ExecuteReport(store, b.reads, b.frame, fault)
        ELSE [frame |-> EmptyFrame, reported |-> TRUE, outcome |-> "returned",
              unclosed |-> IF fault = "unopenable" THEN 0 ELSE 1]

query_3_provider_contacts_by_city(city, fault) ==
    LET st == Query3Statement(city)
        r == ExecuteBound(files[SQLQueriesDbPath], st, fault)
    IN  /\ last' = [Result("query_3", [city |-> city, fault |-> fault],
                           SQLQueriesDbPath, r.outcome, r.reported, r.frame)
                      EXCEPT !.unclosed = r.unclosed, !.sql = st]
        /\ UNCHANGED <<files, now>>
        /\ Counted

\* the "Apply Filters" button of FoodWasteApp.search_filter; the page shows
\* the frame, or a warning when it is empty
search_filter(food_type_filter, meal_type_filter, city_filter, fault) ==
    LET st == SearchStatement(food_type_filter, meal_type_filter, city_filter)
        r == ExecuteBound(files[SQLQueriesDbPath], st, fault)
    IN  /\ last' = [Result("search_filter",
                           [food_type_filter |-> food_type_filter,
                            meal_type_filter |-> meal_type_filter,
                            city_filter |-> city_filter, fault |-> fault],
                           SQLQueriesDbPath, r.outcome, r.reported,
                           IF FrameEmpty(r.frame)
                           THEN "No food items match the selected criteria"
                           ELSE "dataframe")
                      EXCEPT !.unclosed = r.unclosed, !.sql = st]
        /\ UNCHANGED <<files, now>>
        /\ Counted

\* the reports get_all_queries_results runs, by number: all but Report 3
AllQueries == (1..15) \ {3}

\* the tables the SELECT of report n names
ReportReads(n) ==
    CASE n = 1 -> {"providers", "receivers"}
      [] n = 2 -> {"providers", "food_listings"}
      [] n \in {4, 11} -> {"receivers", "claims", "food_listings"}
      [] n \in {5, 6, 7, 14} -> {"food_listings"}
      [] n \in {8, 12} -> {"food_listings", "claims"}
      [] n \in {9, 13, 15} -> {"providers", "food_listings", "claims"}
      [] n = 10 -> {"claims"}

\* what the SELECT of report n yields on store at moment t
ReportFrame(n, store, t) ==
    CASE n = 1 -> Query1(store)
      [] n = 2 -> Query2(store)
      [] n = 4 -> Query4(store)
      [] n = 5 -> Query5(store)
      [] n = 6 -> Query6(store)
      [] n = 7 -> Query7(store)
      [] n = 8 -> Query8(store)
      [] n = 9 -> Query9(store)
      [] n = 10 -> Query10(store)
      [] n = 11 -> Query11(store)
      [] n = 12 -> Query12(store)
      [] n = 13 -> Query13(store)
      [] n = 14 -> Query14(store, t)
      [] n = 15 -> Query15(store, t)

\* results = {}; results['Query n: ...'] = self.query_n_...() for each n of
\* AllQueries; return results.  Each report opens and closes a connection
\* of its own.
get_all_queries_results(fault) ==
    LET store == files[SQLQueriesDbPath]
        run(n) == ExecuteReport(store, ReportReads(n),
                                ReportFrame(n, store, now), fault)
    IN  /\ last' = [Result("get_all_queries_results",
                           [fault |-> fault, now |-> now], SQLQueriesDbPath,
                           "returned", \E n \in AllQueries : run(n).reported,
                           [n \in AllQueries |-> run(n).frame])
                      EXCEPT !.unclosed =
                          Cardinality({n \in AllQueries :
                                          run(n).unclosed = 1})]
        /\ UNCHANGED <<files, now>>
        /\ Counted

----------------------------------------------------------------------------
(* The calls the model makes *)

\* form inputs of add_food_listing: name, quantity, days until expiry,
\* provider, location, food type, meal type (the last one is a quantity
\* the form does not take)
AddFoodInputs ==
    {<<"", 1, 0, 1, "Mumbai", "Vegetarian", "Lunch">>,
     <<"Rice", 1, 0, 1, "Mumbai", "Vegetarian", "Lunch">>,
     <<"Rice", 2, 1, 2, "Delhi", "Vegan", "Dinner">>,
     <<"Rice", 0 - 2, 0, 1, "Mumbai", "Vegetarian", "Lunch">>}

\* form inputs of add_claim: food, receiver, status
AddClaimInputs ==
    {<<1, 1, "Pending">>, <<1, 1, "Completed">>, <<2, 2, "Cancelled">>}

\* form inputs of update_food_listing: new quantity, days from today of the
\* date picker (0: left as shown), new location
UpdateFoodInputs ==
    {<<0, 0, "Keep Current">>, <<0, 0, "Delhi">>, <<2, 1, "Keep Current">>}

SetupCall ==
    \/ \E impl \in Impls, fault \in ConnFaults : create_tables(impl, fault)
    \/ \E c \in LoadCalls : load_csv_data(c.impl, c.fault, c.v, c.bad, c.how)

QueryCall ==
    \/ \E q \in Queries, fault \in ConnFaults : execute_query(q, fault)
    \/ \E t \in Tables, fault \in ConnFaults : view_records(t, fault)

CrudCall ==
    \/ \E i \in AddFoodInputs :
            add_food_listing(i[1], i[2], Today + i[3], i[4], i[5], i[6],
                             i[7])
    \/ \E i \in AddClaimInputs : add_claim(i[1], i[2], i[3])
    \/ \E f \in FoodIds, i \in UpdateFoodInputs :
            update_food_listing(f, i[1], Today + i[2], i[3])
    \/ \E c \in ClaimIds, s \in Statuses : update_claim(c, s)
    \/ \E f \in FoodIds, ok \in BOOLEAN : delete_food_listing(f, ok)
    \/ \E c \in ClaimIds, ok \in BOOLEAN : delete_claim(c, ok)

\* The program as it is deployed: every component on its default path
Next ==
    \/ Tick
    \/ SetupCall
    \/ QueryCall
    \/ CrudCall
    \/ \E fault \in ConnFaults : clean_expired_food(fault)

Spec == Init /\ [][Next]_vars

\* The front end once food_waste.db holds the tables: the store is set up
\* without a fault, and a backup written to food_waste.db is the one call
\* of the program that puts tables there.  Runs of at most MaxCalls calls.
NextCrud ==
    \/ Tick
    \/ create_tables("root", "none")
    \/ \E v \in CsvVersions : load_csv_data("root", "none", v, 0, "missing")
    \/ \E bp \in {"None", AltPath}, fault \in ConnFaults :
            backup_database(bp, fault)
    \/ CrudCall
    \/ clean_expired_food("none")

SpecCrud == InitBounded /\ [][NextCrud]_vars

\* The data sets the reports are run on: what data/ may hold when
\* load_csv_data runs.  Keys are unique in each file; a listing may name a
\* provider, and a claim a listing, that its file does not hold.  Expiry
\* dates lie around day 1, the day the clock starts in: the day before, the
\* day itself, and 1, 3, 5 and 6 days later.  The second listing is of
\* either meal type, and in one variant its Quantity is 0.
ReportExpiries == {NULL, 0, 1, 1 + 1, 1 + 3, 1 + 5, 1 + 6}

ReportFrames(t) ==
    CASE t = "providers" ->
           {<< >>, Csv("providers", "v1"), Csv("providers", "v2")}
      [] t = "receivers" -> {Csv("receivers", "v1")}
      [] t = "food_listings" ->
           {a \o b :
              a \in {<< >>} \cup
                    {<< [Food_ID |-> 1, Food_Name |-> "Rice", Quantity |-> 2,
                         Expiry_Date |-> e, Provider_ID |-> 1,
                         Location |-> "Mumbai", Food_Type |-> "Vegetarian",
                         Meal_Type |-> "Lunch"] >> :
                            e \in ReportExpiries},
              b \in {<< >>} \cup
                    {<< [Food_ID |-> 2, Food_Name |-> "Bread",
                         Quantity |-> v[1], Expiry_Date |-> v[2],
                         Provider_ID |-> v[3], Location |-> "Delhi",
                         Food_Type |-> "Vegan", Meal_Type |-> v[4]] >> :
                            v \in {<<1, 1 + 3, 2, "Lunch">>,
                                   <<0, 1 + 6, 2, "Dinner">>,
                                   <<1, 1 + 3, 3, "Dinner">>,
                                   <<1, 1 + 6, 3, "Lunch">>}}}
      [] t = "claims" ->
           {a \o b \o c :
              a \in {<< >>} \cup
                    {<< [Claim_ID |-> 1, Food_ID |-> 1, Receiver_ID |-> 1,
                         Status |-> st] >> : st \in {"Pending", "Completed"}},
              b \in {<< >>,
                     << [Claim_ID |-> 2, Food_ID |-> 2, Receiver_ID |-> 1,
                         Status |-> "Completed"] >>,
                     << [Claim_ID |-> 2, Food_ID |-> 1, Receiver_ID |-> 1,
                         Status |-> "Cancelled"] >>},
              c \in {<< >>,
                     << [Claim_ID |-> 3, Food_ID |-> 2, Receiver_ID |-> 1,
                         Status |-> "Cancelled"] >>}}

\* the store after create_tables and a load of the frames d
LoadedStore(d) ==
    ToSqlReplace(
        ToSqlReplace(
            ToSqlReplace(
                ToSqlReplace(CreateIfNotExists(EmptyStore),
                             "providers", d["providers"]),
                "receivers", d["receivers"]),
            "food_listings", d["food_listings"]),
        "claims", d["claims"])

\* The query layer on a store that was set up and loaded
InitReports ==
    /\ \E pv \in ReportFrames("providers"), rc \in ReportFrames("receivers"),
          fl \in ReportFrames("food_listings"), cl \in ReportFrames("claims") :
          files = [p \in Paths |->
                     IF p = DatabaseSetupDbPath
                     THEN LoadedStore([providers |-> pv, receivers |-> rc,
                                       food_listings |-> fl, claims |-> cl])
                     ELSE EmptyStore]
    /\ now = TicksPerDay
    /\ last = NoCall
    /\ calls = Unbounded
    /\ running = NotRunning

ReportCall ==
    \/ \E fault \in ConnFaults : query_5_total_food_quantity(fault)
    \/ \E fault \in ConnFaults : query_8_claims_per_food_item(fault)
    \/ \E fault \in ConnFaults : query_9_successful_providers(fault)
    \/ \E fault \in ConnFaults : query_10_claim_status_distribution(fault)
    \/ \E fault \in ConnFaults : query_12_popular_meal_types(fault)
    \/ \E fault \in ConnFaults : query_13_provider_donations(fault)
    \/ \E fault \in ConnFaults : query_14_expiring_food(fault)
    \/ \E fault \in ConnFaults : query_15_unclaimed_food(fault)

NextReports ==
    \/ Tick
    \/ \E i \in AddClaimInputs : add_claim(i[1], i[2], i[3])
    \/ ReportCall

SpecReports == InitReports /\ [][NextReports]_vars

\* the stores the query layer is run on: no table, the tables but no row,
\* and the tables loaded from either version of the data set
QueryStores ==
    {EmptyStore, CreateIfNotExists(EmptyStore)}
      \cup {LoadedStore([t \in Tables |-> Csv(t, v)]) : v \in CsvVersions}

InitQueries ==
    /\ \E store \in QueryStores :
          files = [p \in Paths |->
                     IF p = SQLQueriesDbPath THEN store ELSE EmptyStore]
    /\ now = TicksPerDay
    /\ last = NoCall
    /\ calls = Unbounded
    /\ running = NotRunning

\* the values a caller passes for the city of Report 3
CityInputs == Cities \cup {"x' OR '1'='1"}

\* the choices of the three select boxes of the search form
FoodTypeChoices == {"All", "Vegetarian", "Vegan"}
MealTypeChoices == {"All", "Lunch", "Dinner"}
LocationChoices == {"All", "Mumbai", "Delhi"}

AllReportsCall ==
    \/ ReportCall
    \/ \E fault \in ConnFaults : query_1_providers_receivers_by_city(fault)
    \/ \E fault \in ConnFaults : query_2_provider_type_contribution(fault)
    \/ \E city \in CityInputs, fault \in ConnFaults :
          query_3_provider_contacts_by_city(city, fault)
    \/ \E fault \in ConnFaults : query_4_top_claiming_receivers(fault)
    \/ \E fault \in ConnFaults : query_6_city_food_listings(fault)
    \/ \E fault \in ConnFaults : query_7_common_food_types(fault)
    \/ \E fault \in ConnFaults : query_11_avg_quantity_per_receiver(fault)
    \/ \E fault \in ConnFaults : get_all_queries_results(fault)
    \/ \E ft \in FoodTypeChoices, mt \in MealTypeChoices,
          loc \in LocationChoices, fault \in ConnFaults :
          search_filter(ft, mt, loc, fault)

\* the reports and the search form, with the writers of the same file in
\* between
NextQueries ==
    \/ Tick
    \/ \E i \in AddClaimInputs : add_claim(i[1], i[2], i[3])
    \/ \E fault \in ConnFaults : clean_expired_food(fault)
    \/ AllReportsCall

SpecQueries == InitQueries /\ [][NextQueries]_vars

\* Two callers run clean_expired_food on a loaded store, statement by
\* statement, while the front end deletes, adds and updates listings
InitPurge ==
    /\ \E v \in CsvVersions :
          files = [p \in Paths |->
                     IF p = DatabaseUtilsDbPath
                     THEN LoadedStore([t \in Tables |-> Csv(t, v)])
                     ELSE EmptyStore]
    /\ now = TicksPerDay
    /\ last = NoCall
    /\ calls = Unbounded
    /\ running = NotRunning

NextPurge ==
    \/ Tick
    \/ \E c \in Callers, fault \in ConnFaults :
          clean_expired_food_count(c, fault)
    \/ \E c \in Callers : clean_expired_food_delete(c)
    \/ \E c \in Callers : clean_expired_food_return(c)
    \/ \E f \in FoodIds : delete_food_listing(f, TRUE)
    \/ \E i \in AddFoodInputs :
          add_food_listing(i[1], i[2], Today + i[3], i[4], i[5], i[6], i[7])
    \/ \E f \in FoodIds, i \in UpdateFoodInputs :
          update_food_listing(f, i[1], Today + i[2], i[3])

SpecPurge == InitPurge /\ [][NextPurge]_vars

----------------------------------------------------------------------------
(* Properties *)

\* a step that is a call of `op` (every call writes `last`; the clock does
\* not move during a call)
CallOf(op) == now' = now /\ last'.op = op

\* all tables but t, and all files but p, are as before
OnlyTableChanged(p, t) ==
    /\ \A q \in Paths \ {p} : files'[q] = files[q]
    /\ files'[p].kind = files[p].kind
    /\ \A u \in Tables \ {t} : files'[p].rows[u] = files[p].rows[u]

\* C1: a purge that does not fail deletes exactly the listings whose
\* Expiry_Date is strictly before the current date, keeps every other
\* listing and every other table, and returns the number of listings it
\* deleted; a second purge of the store it leaves, at the same date,
\* returns 0 and deletes nothing.
C1_PurgeExact ==
    [][(CallOf("clean_expired_food") /\ ~last'.reported) =>
        LET p == DatabaseUtilsDbPath
            before == files[p].rows["food_listings"]
            after == files'[p].rows["food_listings"]
            again == CleanExpiredFood(files'[p], Today, "none")
        IN  /\ after = {r \in before :
                          ~(r.Expiry_Date # NULL /\ r.Expiry_Date < Today)}
            /\ last'.value = Cardinality(before \ after)
            /\ OnlyTableChanged(p, "food_listings")
            /\ again.value = 0
            /\ again.store = files'[p]]_vars

\* a purge has just removed a listing and kept another
C1_Witness ==
    /\ last.op = "clean_expired_food"
    /\ last.value >= 1
    /\ files[DatabaseUtilsDbPath].rows["food_listings"] # {}

\* C2: every successful CRUD write lands in the store the query layer
\* reads: the handler connected to the path of SQLQueries, and a full read
\* of the written table through execute_query returns the rows the write
\* left.
C2_SingleStore ==
    (last.op \in CrudOps /\ last.value = "success") =>
        LET t == CrudTable(last.op)
            read == ExecuteQuery(files[SQLQueriesDbPath],
                                 [kind |-> "select_all", table |-> t], "none")
        IN  /\ last.path = SQLQueriesDbPath
            /\ read.frame.rows = files[last.path].rows[t]

\* every claim refers to a listing and a receiver the store holds
ClaimsRI(store) ==
    \A c \in store.rows["claims"] :
        /\ \E f \in store.rows["food_listings"] : f.Food_ID = c.Food_ID
        /\ \E r \in store.rows["receivers"] : r.Receiver_ID = c.Receiver_ID

\* every listing refers to a provider the store holds
ListingsRI(store) ==
    \A f \in store.rows["food_listings"] :
        \E pr \in store.rows["providers"] : pr.Provider_ID = f.Provider_ID

\* C3: referential integrity of claims is kept by every CRUD handler and by
\* the purge: if it holds in every store before the call, it holds after.
C3_ClaimsReferentialIntegrity ==
    [][(/\ now' = now
        /\ last'.op \in CrudOps \cup {"clean_expired_food"}
        /\ \A p \in Paths : ClaimsRI(files[p]))
       => \A p \in Paths : ClaimsRI(files'[p])]_vars

\* C4: referential integrity of listings is kept by add_food_listing,
\* update_food_listing and the delete handlers: if it holds in every store
\* before the call, it holds after.
C4_ListingsReferentialIntegrity ==
    [][(/\ now' = now
        /\ last'.op \in {"add_food_listing", "update_food_listing",
                         "delete_food_listing", "delete_claim"}
        /\ \A p \in Paths : ListingsRI(files[p]))
       => \A p \in Paths : ListingsRI(files'[p])]_vars

\* C5: create_tables on a store that can be opened returns without an
\* error, leaves every row and every existing table as it was, and leaves
\* the store holding all four tables.
C5_CreateTablesIdempotent ==
    [][(CallOf("create_tables") /\ last'.arg.fault = "none") =>
        LET p == DatabaseSetupDbPath
        IN  /\ last'.outcome = "returned"
            /\ ~last'.reported
            /\ files'[p].rows = files[p].rows
            /\ \A t \in Tables :
                  /\ files'[p].kind[t] # "absent"
                  /\ files[p].kind[t] # "absent" =>
                        files'[p].kind[t] = files[p].kind[t]
            /\ \A q \in Paths \ {p} : files'[q] = files[q]]_vars

\* create_tables has just run on a store that holds rows
C5_Witness ==
    /\ last.op = "create_tables"
    /\ last.arg.fault = "none"
    /\ files[DatabaseSetupDbPath].rows["food_listings"] # {}
    /\ files[DatabaseSetupDbPath].rows["claims"] # {}

\* C6: after load_csv_data succeeded, a full read of each of the four
\* tables returns exactly the rows of its source.
C6_LoadOverwrites ==
    (last.op = "load_csv_data" /\ last.value = DataLoaded) =>
        \A t \in Tables :
            ReadAll(files[DatabaseSetupDbPath], t) = SourceRows(t, last.arg.v)

\* the second data set has just been loaded
C6_Witness ==
    /\ last.op = "load_csv_data"
    /\ last.value = DataLoaded
    /\ last.arg.v = "v2"
    /\ ReadAll(files[DatabaseSetupDbPath], "food_listings")
          = SourceRows("food_listings", "v2")

\* C7: when a source is faulty, the tables written before the call stopped
\* hold their new contents, the faulty table and the later ones are as
\* before, and the reported failure names the faulty source.
C7_PartialLoadReported ==
    [][(/\ CallOf("load_csv_data")
        /\ last'.arg.fault = "none"
        /\ last'.arg.bad # 0) =>
        LET p == DatabaseSetupDbPath
            bad == last'.arg.bad
            v == last'.arg.v
        IN  /\ \E k \in 0..(bad - 1) :
                  /\ \A i \in 1..k :
                        ReadAll(files'[p], LoadOrder[i])
                            = SourceRows(LoadOrder[i], v)
                  /\ \A i \in (k + 1)..Len(LoadOrder) :
                        /\ files'[p].rows[LoadOrder[i]]
                              = files[p].rows[LoadOrder[i]]
                        /\ files'[p].kind[LoadOrder[i]]
                              = files[p].kind[LoadOrder[i]]
            /\ last'.reported
            /\ CsvPath(LoadOrder[bad]) \in last'.value.names]_vars

\* C8: a call of create_tables or load_csv_data that met a failure ends in
\* an exception at its caller.
C8_SetupFailsFast ==
    (last.op \in {"create_tables", "load_csv_data"} /\ last.reported) =>
        last.outcome = "raised"

\* C9: execute_query changes no file and always returns; when the store
\* cannot be opened, the statement is malformed or its table is missing, it
\* returns the empty frame and reports an error.
C9_QueryNeverPropagates ==
    [][CallOf("execute_query") =>
        LET q == last'.arg.query
        IN  /\ files' = files
            /\ last'.outcome = "returned"
            /\ (\/ last'.arg.fault = "unopenable"
                \/ q.kind = "malformed"
                \/ files[SQLQueriesDbPath].kind[q.table] = "absent")
               => (last'.value = EmptyFrame /\ last'.reported)]_vars

\* a malformed statement has just been run on a store that holds rows
C9_Witness ==
    /\ last.op = "execute_query"
    /\ last.arg.query.kind = "malformed"
    /\ last.arg.fault = "none"
    /\ last.reported
    /\ files[SQLQueriesDbPath].rows["food_listings"] # {}

\* the four tables, created and empty
CreatedStore == CreateIfNotExists(EmptyStore)

\* C10: what the caller gets after a failure differs from what it gets
\* after a success that found nothing: for execute_query, for the page
\* that shows its result, and for clean_expired_food.
C10_FailureDistinguishable ==
    /\ (last.op = "execute_query" /\ last.reported
            /\ last.arg.query.kind = "select_all") =>
          last.value # ExecuteQuery(CreatedStore, last.arg.query, "none").frame
    /\ (last.op = "view_records" /\ last.reported) =>
          last.value # RecordsShown(
              ExecuteQuery(CreatedStore,
                           [kind |-> "select_all", table |-> last.arg.table],
                           "none").frame)
    /\ (last.op = "clean_expired_food" /\ last.reported) =>
          last.value # CleanExpiredFood(CreatedStore, Today, "none").value

\* C11: between calls no connection is open that a call opened and did not
\* close: every call closed each connection it opened before it returned.
C11_NoConnectionHeld == last.unclosed = 0

\* the key an update or a delete was asked to act on
TargetKey(r) ==
    CASE r.op = "update_food_listing" -> r.arg.food_id
      [] r.op = "update_claim" -> r.arg.claim_id
      [] r.op \in {"delete_food_listing", "delete_claim"} -> r.arg.id

C13_AnyStatusTransition ==
    [][(/\ CallOf("update_claim")
        /\ Matching(files[UpdateClaimPath], "claims", last'.arg.claim_id) # {})
       => LET p == UpdateClaimPath
              before == files[p].rows["claims"]
          IN  /\ last'.value = "success"
              /\ files'[p].rows["claims"] =
                    {IF r.Claim_ID = last'.arg.claim_id
                     THEN [r EXCEPT !.Status = last'.arg.new_status]
                     ELSE r : r \in before}
              /\ OnlyTableChanged(p, "claims")]_vars

\* a claim that was Completed when the store was copied has just been set
\* back to Pending
C13_Witness ==
    /\ last.op = "update_claim"
    /\ last.value = "success"
    /\ last.arg.new_status = "Pending"
    /\ \E c \in files[MainPath].rows["claims"] :
          /\ c.Claim_ID = last.arg.claim_id
          /\ c.Status = "Completed"
          /\ [c EXCEPT !.Status = "Pending"] \in files[UpdateClaimPath].rows["claims"]

\* C14: Report 5 returns one row, whose Total_Available_Quantity is the sum
\* of Quantity over the food_listings rows (0 for no row), Total_Food_Items
\* the number of rows and Active_Providers the number of distinct
\* Provider_ID values.
C14_Report5Totals ==
    (last.op = "query_5" /\ ~last.reported) =>
        LET fl == files[SQLQueriesDbPath].rows["food_listings"]
        IN  /\ Cardinality(last.value.rows) = 1
            /\ \A r \in last.value.rows :
                  /\ r.Total_Available_Quantity = SumQuantity(fl)
                  /\ r.Total_Food_Items = Cardinality(fl)
                  /\ r.Active_Providers =
                        Cardinality({x.Provider_ID : x \in fl})

RECURSIVE SumPercentage(_)
SumPercentage(rows) ==
    IF rows = {} THEN 0
    ELSE LET r == CHOOSE x \in rows : TRUE
         IN  r.Percentage + SumPercentage(rows \ {r})

\* the absolute value
Abs(x) == IF x < 0 THEN 0 - x ELSE x

\* C15: on a claims table that is not empty, Report 10 returns one row for
\* each Status present; its Count is the number of claims with that Status,
\* its Percentage (in hundredths) is the hundredth nearest to
\* Count / (number of claims) x 100, and the percentages add up to 100 with
\* an error of at most half a hundredth for each row.
C15_Report10Percentages ==
    (/\ last.op = "query_10"
     /\ ~last.reported
     /\ files[SQLQueriesDbPath].rows["claims"] # {}) =>
        LET cl == files[SQLQueriesDbPath].rows["claims"]
            rows == last.value.rows
        IN  /\ {r.Status : r \in rows} = {c.Status : c \in cl}
            /\ \A r1, r2 \in rows : r1.Status = r2.Status => r1 = r2
            /\ \A r \in rows :
                  /\ r.Count = Cardinality({c \in cl : c.Status = r.Status})
                  /\ 2 * Abs(r.Percentage * Cardinality(cl)
                                - r.Count * 100 * 100) <= Cardinality(cl)
            /\ 2 * Abs(SumPercentage(rows) - 100 * 100) <= Cardinality(rows)

\* Report 10 has just shown three statuses with a third of the claims each
C15_Witness ==
    /\ last.op = "query_10"
    /\ ~last.reported
    /\ Cardinality(last.value.rows) = 3
    /\ \A r \in last.value.rows : r.Count = 1 /\ r.Percentage = 3333

\* C16: Report 14 returns the listings that expire at most 5 days after the
\* current moment, and no other; each is labelled Expired when its expiry
\* lies before this moment, else Critical up to 1 day, else Warning up to 3
\* days, else Safe; a listing whose Expiry_Date is the day before today is
\* returned as Expired.
C16_Report14Window ==
    [][(CallOf("query_14") /\ ~last'.reported) =>
        LET fl == files[SQLQueriesDbPath].rows["food_listings"]
            rows == last'.value.rows
            left(f) == f.Expiry_Date * TicksPerDay - now
            row(f) == {r \in rows : r.src = <<f.rowid>>}
        IN  /\ \A f \in fl :
                  IF f.Expiry_Date # NULL /\ left(f) <= 5 * TicksPerDay
                  THEN /\ Cardinality(row(f)) = 1
                       /\ \A r \in row(f) :
                             /\ r.Days_Until_Expiry = left(f)
                             /\ r.Status = "Expired" <=> left(f) < 0
                             /\ r.Status = "Critical" <=>
                                   (0 <= left(f) /\ left(f) <= TicksPerDay)
                             /\ r.Status = "Warning" <=>
                                   (TicksPerDay < left(f)
                                      /\ left(f) <= 3 * TicksPerDay)
                             /\ r.Status = "Safe" <=> 3 * TicksPerDay < left(f)
                  ELSE row(f) = {}
            /\ \A r \in rows : \E f \in fl : r.src = <<f.rowid>>
            /\ \A f \in fl : f.Expiry_Date = Today - 1 =>
                  \E r \in row(f) : r.Status = "Expired"]_vars

\* Report 14 has just returned yesterday's listing as Expired and left out
\* a listing that expires in more than 5 days
C16_Witness ==
    /\ last.op = "query_14"
    /\ \E r \in last.value.rows :
          r.Status = "Expired" /\ r.Days_Until_Expiry <= 0 - TicksPerDay
    /\ \E f \in files[SQLQueriesDbPath].rows["food_listings"] :
          /\ f.Expiry_Date # NULL
          /\ \A r \in last.value.rows : r.src # <<f.rowid>>

\* the claims that refer to listing f
Referring(store, f) == {c \in store.rows["claims"] : c.Food_ID = f.Food_ID}

\* C17: Report 15 returns no listing that a claim refers to, whatever the
\* claim's Status, and returns no listing twice.
C17_Report15ExcludesClaimed ==
    (last.op = "query_15" /\ ~last.reported) =>
        LET store == files[SQLQueriesDbPath]
            rows == last.value.rows
        IN  /\ \A f \in store.rows["food_listings"] :
                  Referring(store, f) # {} =>
                      \A r \in rows : r.src[1] # f.rowid
            /\ \A r1, r2 \in rows : r1.src[1] = r2.src[1] => r1 = r2

\* Report 15 has just left out a listing whose only claim is Cancelled and
\* returned another listing
C17_Witness ==
    /\ last.op = "query_15"
    /\ last.value.rows # {}
    /\ \E f \in files[SQLQueriesDbPath].rows["food_listings"] :
          /\ Referring(files[SQLQueriesDbPath], f) # {}
          /\ \A c \in Referring(files[SQLQueriesDbPath], f) :
                c.Status = "Cancelled"
          /\ \A r \in last.value.rows : r.src[1] # f.rowid

\* C18: Report 15 returns every listing no claim refers to, with the name
\* and the contact of its provider.
C18_Report15ReturnsUnclaimed ==
    (last.op = "query_15" /\ ~last.reported) =>
        LET store == files[SQLQueriesDbPath]
        IN  \A f \in store.rows["food_listings"] :
                Referring(store, f) = {} =>
                    \E r \in last.value.rows :
                        /\ r.src[1] = f.rowid
                        /\ \E pr \in store.rows["providers"] :
                              /\ pr.Provider_ID = f.Provider_ID
                              /\ r.Provider_Name = pr.Name
                              /\ r.Provider_Contact = pr.Contact

\* C19: Report 8 returns one row for each listing; its Total_Claims is the
\* number of claims that refer to the listing and its Completed_Claims,
\* Pending_Claims and Cancelled_Claims the numbers of those with that
\* Status (all 0 for a listing without claims); when every such claim has
\* one of the three statuses, Total_Claims is the sum of the three.
C19_Report8Counts ==
    (last.op = "query_8" /\ ~last.reported) =>
        LET store == files[SQLQueriesDbPath]
            fl == store.rows["food_listings"]
            rows == last.value.rows
            with(f, st) == Cardinality({c \in Referring(store, f) :
                                          c.Status = st})
        IN  /\ Cardinality(rows) = Cardinality(fl)
            /\ \A f \in fl : \E r \in rows :
                  /\ r.src = {f.rowid}
                  /\ r.Total_Claims = Cardinality(Referring(store, f))
                  /\ r.Completed_Claims = with(f, "Completed")
                  /\ r.Pending_Claims = with(f, "Pending")
                  /\ r.Cancelled_Claims = with(f, "Cancelled")
                  /\ (\A c \in Referring(store, f) : c.Status \in Statuses)
                        => r.Total_Claims = r.Completed_Claims
                              + r.Pending_Claims + r.Cancelled_Claims

\* the claims that refer to a listing of provider pr
ClaimsOnProvider(store, pr) ==
    {c \in store.rows["claims"] :
        \E f \in store.rows["food_listings"] :
            f.Provider_ID = pr.Provider_ID /\ c.Food_ID = f.Food_ID}

\* C20: Report 9 has a row for a provider exactly when a claim refers to
\* one of its listings; the row's Total_Claims is the number of those
\* claims, Successful_Claims the number of them that are Completed, and
\* Success_Rate_Percent (in hundredths) the hundredth nearest to
\* Successful_Claims / Total_Claims x 100, between 0 and 100.
C20_Report9SuccessRate ==
    (last.op = "query_9" /\ ~last.reported) =>
        LET store == files[SQLQueriesDbPath]
            rows == last.value.rows
        IN  /\ \A pr \in store.rows["providers"] :
                  LET cs == ClaimsOnProvider(store, pr)
                      mine == {r \in rows : pr.rowid \in r.src}
                  IN  IF cs = {} THEN mine = {}
                      ELSE /\ Cardinality(mine) = 1
                           /\ \A r \in mine :
                                 /\ r.Total_Claims = Cardinality(cs)
                                 /\ r.Successful_Claims = Cardinality(
                                       {c \in cs : c.Status = "Completed"})
            /\ \A r \in rows :
                  /\ r.Total_Claims > 0
                  /\ 0 <= r.Successful_Claims
                  /\ r.Successful_Claims <= r.Total_Claims
                  /\ 2 * Abs(r.Success_Rate_Percent * r.Total_Claims
                                - r.Successful_Claims * 100 * 100)
                        <= r.Total_Claims
                  /\ 0 <= r.Success_Rate_Percent
                  /\ r.Success_Rate_Percent <= 100 * 100

\* the listings of meal type m
OfMealType(store, m) ==
    {f \in store.rows["food_listings"] : f.Meal_Type = m}

\* the quantity of the listings fls that Completed claims took: the
\* Quantity of a listing for each Completed claim that refers to it
RECURSIVE CompletedQuantity(_, _)
CompletedQuantity(store, fls) ==
    IF fls = {} THEN 0
    ELSE LET f == CHOOSE x \in fls : TRUE
         IN  f.Quantity * Cardinality({c \in Referring(store, f) :
                                          c.Status = "Completed"})
               + CompletedQuantity(store, fls \ {f})

ListedBy(store, pr) ==
    {f \in store.rows["food_listings"] : f.Provider_ID = pr.Provider_ID}

\* C22: Report 13 returns, for every provider, Items_Listed as the number
\* of listings with its Provider_ID and Total_Quantity_Listed as the sum of
\* their Quantity; Quantity_Donated counts Completed claims only;
\* Donation_Rate_Percent (in hundredths) is the hundredth nearest to
\* Quantity_Donated / Total_Quantity_Listed x 100; a provider without
\* listings, or whose listed quantity is 0, still has its row.
C22_Report13Totals ==
    (last.op = "query_13" /\ ~last.reported) =>
        LET store == files[SQLQueriesDbPath]
            rows == last.value.rows
        IN  \A pr \in store.rows["providers"] :
                LET fls == ListedBy(store, pr)
                    mine == {r \in rows : pr.rowid \in r.src}
                IN  /\ Cardinality(mine) = 1
                    /\ \A r \in mine :
                          /\ r.Items_Listed = Cardinality(fls)
                          /\ fls # {} =>
                                r.Total_Quantity_Listed = SumQuantity(fls)
                          /\ r.Quantity_Donated = CompletedQuantity(store, fls)
                          /\ SumQuantity(fls) > 0 =>
                                2 * Abs(r.Donation_Rate_Percent
                                           * SumQuantity(fls)
                                         - r.Quantity_Donated * 100 * 100)
                                   <= SumQuantity(fls)

\* the names the reports leave in last.op
ReportOps ==
    {"query_" \o ToString(n) : n \in 1..15} \cup {"get_all_queries_results"}

\* C23: a call of one of the 15 reports or of get_all_queries_results
\* leaves every row of every table of every file as it was, and when it
\* follows a call of the same report with the same inputs (the current
\* moment among them, for the reports that read it) with no write in
\* between, it returns what that call returned.
C23_ReportsArePureReads ==
    [][last'.op \in ReportOps =>
          /\ files' = files
          /\ (last.op = last'.op /\ last.arg = last'.arg) => last' = last]_vars

\* get_all_queries_results has just run on a store that add_claim wrote to
\* and returned rows for Report 8
C23_Witness ==
    /\ last.op = "get_all_queries_results"
    /\ ~last.reported
    /\ last.value[8].rows # {}
    /\ \E c \in files[SQLQueriesDbPath].rows["claims"] : c.Claim_ID = NULL

\* the selections of a search that are not "All", in the order of the form
ChosenValues(arg) ==
    (IF arg.food_type_filter # "All" THEN <<arg.food_type_filter>> ELSE << >>)
      \o (IF arg.meal_type_filter # "All" THEN <<arg.meal_type_filter>>
          ELSE << >>)
      \o (IF arg.city_filter # "All" THEN <<arg.city_filter>> ELSE << >>)

\* two searches set the same filters
SameFiltersSet(a, b) ==
    /\ (a.food_type_filter = "All") <=> (b.food_type_filter = "All")
    /\ (a.meal_type_filter = "All") <=> (b.meal_type_filter = "All")
    /\ (a.city_filter = "All") <=> (b.city_filter = "All")

\* C28: Report 3 and the search form hand the executor the chosen values as
\* parameters, in the order of the placeholders, and a text that does not
\* depend on them: two calls of Report 3, or two searches with the same
\* filters set, pass the same text whatever the values.
C28_ValuesAreBound ==
    [][/\ last'.op = "query_3" =>
             /\ last'.sql.params = <<last'.arg.city>>
             /\ last.op = "query_3" => last'.sql.sqlText = last.sql.sqlText
       /\ last'.op = "search_filter" =>
             /\ last'.sql.params = ChosenValues(last'.arg)
             /\ (last.op = "search_filter"
                   /\ SameFiltersSet(last.arg, last'.arg)) =>
                   last'.sql.sqlText = last.sql.sqlText]_vars

\* a search with two filters set has just passed two parameters and found
\* a listing
C28_Witness ==
    /\ last.op = "search_filter"
    /\ Len(last.sql.params) = 2
    /\ last.arg.city_filter # "All"
    /\ last.value = "dataframe"

\* the files a default-target backup can have written
BackupPaths == {DefaultBackupPath(t) : t \in 0..MaxNow}

\* C24: a successful backup_database without a backup_path returns the path
\* it wrote and leaves every backup file written before as it was; a failed
\* call returns None.
C24_BackupKeepsPriorBackups ==
    [][(CallOf("backup_database") /\ last'.arg.backup_path = "None") =>
          IF last'.reported THEN last'.value = "None"
          ELSE /\ last'.value \in BackupPaths
               /\ files'[last'.value] = files[DatabaseUtilsDbPath]
               /\ \A q \in BackupPaths :
                     files[q] # EmptyStore => files'[q] = files[q]]_vars

\* C25: clean_expired_food deletes every listing that Report 14 labels
\* Expired at the moment of the purge, so Report 14 run right after the
\* purge, at that moment, has no row with Status 'Expired'.
C25_PurgeAgreesWithReport14 ==
    [][(CallOf("clean_expired_food") /\ ~last'.reported) =>
          LET before == files[DatabaseUtilsDbPath]
              after == files'[SQLQueriesDbPath]
          IN  /\ \A r \in Query14(before, now).rows :
                    r.Status = "Expired" =>
                        \A f \in after.rows["food_listings"] :
                            <<f.rowid>> # r.src
              /\ \A r \in Query14(after, now').rows :
                    r.Status # "Expired"]_vars

\* C26: in every file, every row of every table has a key (Provider_ID,
\* Receiver_ID, Food_ID, Claim_ID) that is not NULL and that no other row
\* of the table has.
C26_KeysUnique ==
    \A p \in Paths, t \in Tables :
        \A r \in files[p].rows[t] :
            /\ r[KeyCol(t)] # NULL
            /\ \A r2 \in files[p].rows[t] :
                  r2[KeyCol(t)] = r[KeyCol(t)] => r2 = r

\* C27: no row of food_listings, in any file, has a negative Quantity.
C27_QuantityNotNegative ==
    \A p \in Paths : \A f \in files[p].rows["food_listings"] : f.Quantity >= 0

\* update_food_listing has just written a new Quantity into a listing
C27_Witness ==
    /\ last.op = "update_food_listing"
    /\ last.value = "success"
    /\ last.arg.new_quantity > 0
    /\ \E f \in files[UpdateFoodListingPath].rows["food_listings"] :
          /\ f.Food_ID = last.arg.food_id
          /\ f.Quantity = last.arg.new_quantity
          /\ f.Provider_ID # NULL

\* C29: update_food_listing for a Food_ID that exists leaves every file but
\* its own, every table but food_listings and every row but those with the
\* given Food_ID as they were; in a row with that Food_ID it leaves Quantity as it was when the
\* new quantity is 0, Location when the location is 'Keep Current',
\* Expiry_Date when the date field was left as shown (today's date), and
\* every other column; a submission with all three left so writes nothing
\* and reports 'No updates specified'.
C29_UpdateChangesOnlyAskedFields ==
    [][(/\ CallOf("update_food_listing")
        /\ Matching(files[UpdateFoodListingPath], "food_listings",
                    last'.arg.food_id) # {}) =>
          LET p == UpdateFoodListingPath
              a == last'.arg
              old == files[p].rows["food_listings"]
              new == files'[p].rows["food_listings"]
              asked == {c \in {"Quantity", "Expiry_Date", "Location"} :
                          \/ c = "Quantity" /\ a.new_quantity # 0
                          \/ c = "Expiry_Date" /\ a.new_expiry # Today
                          \/ c = "Location"
                               /\ a.update_location # "Keep Current"}
          IN  /\ OnlyTableChanged(p, "food_listings")
              /\ {r.rowid : r \in new} = {r.rowid : r \in old}
              /\ \A r \in old : \A r2 \in new :
                    r2.rowid = r.rowid =>
                        /\ DOMAIN r2 = DOMAIN r
                        /\ r.Food_ID # a.food_id => r2 = r
                        /\ \A c \in DOMAIN r \ asked : r2[c] = r[c]
              /\ asked = {} =>
                    files' = files /\ last'.value = "no_updates"]_vars

\* C30: a call of clean_expired_food that is over returned the number of
\* rows its own DELETE removed, whatever ran between its SELECT and its
\* DELETE; when both callers are done, their two counts add up to the
\* number of rows the two DELETEs removed.
C30_CountIsRowsRemoved ==
    /\ \A c \in Callers :
          running[c].pc = "done" => running[c].returned = running[c].rowcount
    /\ (\A c \in Callers : running[c].pc = "done") =>
          running[1].returned + running[2].returned
             = running[1].rowcount + running[2].rowcount

====
